---- MODULE Spec2Model ----
(***************************************************************************)
(* KG Grill Kitchen storefront: the pricing / totals engine.               *)
(*                                                                         *)
(* Money is fixed point: one unit is a thousandth of a cent, so that the   *)
(* 10% service rate and whole-percent tips of a cent amount stay integral. *)
(* Math.round(x * 100) is RoundCents.  Floating-point representation error *)
(* of the JavaScript numbers is outside the model.                         *)
(***************************************************************************)
EXTENDS Integers, Sequences, FiniteSets, TLC

\* ------------------------------------------------------------------------
\* Bounds of the model (inputs and counters)
\* ------------------------------------------------------------------------
MaxQty == 2          \* largest quantity a cart line is driven to
MaxOverridden == 2   \* entries overridden at once in the resolver specification
MaxPoints == 40      \* Grill Points a visitor is awarded up to
MaxPending == 1      \* geocoding / geolocation requests in flight at once

Cent == 10 * 100
P(d, c) == (d * 100 + c) * Cent

\* Math.round(x * 100): nearest cent, halves towards +infinity
RoundCents(x) == (x + (Cent \div 2)) \div Cent

NoKey == "none"

\* ------------------------------------------------------------------------
\* Menu data (part_000)
\* ------------------------------------------------------------------------
mains ==
  << [id |-> "beef_ribs",       price |-> P(16, 0)],
     [id |-> "beef_burgers",    price |-> P(5, 50)],
     [id |-> "beef_patties",    price |-> P(3, 50)],
     [id |-> "chicken_wings",   price |-> P(11, 0)],
     [id |-> "chicken_quarter", price |-> P(18, 0)],
     [id |-> "snapper",         price |-> P(26, 0)],
     [id |-> "tilapia",         price |-> P(21, 0)],
     [id |-> "salmon",          price |-> P(21, 0)],
     [id |-> "chicken_kabobs",  price |-> P(11, 0)],
     [id |-> "beef_kabobs",     price |-> P(11, 0)],
     [id |-> "shrimp_kabobs",   price |-> P(11, 0)],
     [id |-> "kg_mystery",      price |-> P(4, 0)] >>

sides ==
  << [id |-> "jollof_rice",        price |-> P(6, 0)],
     [id |-> "mac_cheese",         price |-> P(6, 0)],
     [id |-> "potato_wedges",      price |-> P(6, 0)],
     [id |-> "cassava_leaf",       price |-> P(21, 50)],
     [id |-> "potato_greens",      price |-> P(21, 50)],
     [id |-> "side_chicken_wing",  price |-> P(3, 50)],
     [id |-> "side_chicken_kabob", price |-> P(3, 50)],
     [id |-> "side_beef_kabob",    price |-> P(3, 50)],
     [id |-> "side_shrimp_kabob",  price |-> P(3, 50)] >>

\* one option of portionOptions: <<key, price, inlinePrice>> in dollars
Opt(o) == [key |-> o[1], onlinePrice |-> P(o[2], 0), inlinePrice |-> P(o[3], 0)]

portionData ==
  [ beef_ribs       |-> << <<"1_rib", 16, 15>>, <<"2_ribs", 21, 20>>, <<"3_ribs", 26, 25>> >>,
    chicken_wings   |-> << <<"2_wings", 11, 10>>, <<"3_wings", 15, 13>>, <<"4_wings", 18, 15>> >>,
    chicken_quarter |-> << <<"1_leg", 15, 12>>, <<"2_legs", 23, 19>>, <<"3_legs", 30, 26>> >>,
    chicken_kabobs  |-> << <<"2_kabobs", 12, 10>>, <<"3_kabobs", 15, 13>>, <<"4_kabobs", 18, 15>> >>,
    beef_kabobs     |-> << <<"2_kabobs", 12, 10>>, <<"3_kabobs", 15, 13>>, <<"4_kabobs", 18, 15>> >>,
    shrimp_kabobs   |-> << <<"2_kabobs", 12, 10>>, <<"3_kabobs", 15, 13>>, <<"4_kabobs", 18, 15>> >> ]

OptionsOf(data) == [id \in DOMAIN data |-> [i \in 1..Len(data[id]) |-> Opt(data[id][i])]]

portionOptions == OptionsOf(portionData)

allItems == mains \o sides
IdsOf(all) == { all[i].id : i \in 1..Len(all) }
FindItem(all, id) == CHOOSE it \in { all[i] : i \in 1..Len(all) } : it.id = id
KeysOf(options) == { options[i].key : i \in 1..Len(options) }
FindOption(options, k) == CHOOSE o \in { options[i] : i \in 1..Len(options) } : o.key = k
PortionKeysIn(table, id) == IF id \in DOMAIN table THEN KeysOf(table[id]) ELSE {}

ItemIds == IdsOf(allItems)
PortionedIds == DOMAIN portionOptions
ItemOf(id) == FindItem(allItems, id)
OptionOf(id, k) == FindOption(portionOptions[id], k)
PortionKeys(id) == PortionKeysIn(portionOptions, id)

\* Every priced entry of the catalog: <<item id, NoKey>> or <<item id, portion key>>
EntriesOf(ids, table) ==
  { <<id, NoKey>> : id \in ids }
    \cup UNION { { <<id, k>> : k \in KeysOf(table[id]) } : id \in DOMAIN table }

Entries == EntriesOf(ItemIds, portionOptions)

SinglePieceSides ==
  { "side_chicken_wing", "side_chicken_kabob", "side_beef_kabob", "side_shrimp_kabob" }

Abs(x) == IF x < 0 THEN -x ELSE x

\* Mutant: a price brought to 16.00 by the removal of .50 stays 16.00
computeInlineBasePrice_halfThenKept(basePrice, itemId) ==
  IF itemId \in SinglePieceSides
    THEN P(3, 0)
    ELSE LET cents == RoundCents(basePrice)
         IN  IF cents % 100 = 50 THEN (cents - 50) * Cent
             ELSE IF Abs(basePrice - P(16, 0)) < Cent \div 10 THEN P(15, 0) ELSE basePrice

computeInlineBasePrice(basePrice, itemId) ==
  IF itemId \in SinglePieceSides
    THEN P(3, 0)
    ELSE LET cents == RoundCents(basePrice)
             p1 == IF cents % 100 = 50 THEN (cents - 50) * Cent ELSE basePrice
         IN  IF Abs(p1 - P(16, 0)) < Cent \div 10 THEN P(15, 0) ELSE p1

\* the copy the storefront script uses when the menu data provides none
fallbackComputeInlineBasePrice(basePrice, itemId) ==
  IF itemId \in SinglePieceSides
    THEN P(3, 0)
    ELSE LET cents == RoundCents(basePrice)
             p1 == IF cents % 100 = 50 THEN (cents - 50) * Cent ELSE basePrice
         IN  IF Abs(p1 - P(16, 0)) < Cent \div 10 THEN P(15, 0) ELSE p1

BaselineRow(inlinePrice, onlinePrice) ==
  [ onlinePrice |-> onlinePrice, inlinePrice |-> inlinePrice,
    markup |-> onlinePrice - inlinePrice ]

ItemBaseline(item) == BaselineRow(computeInlineBasePrice(item.price, item.id), item.price)
OptionBaseline(opt) == BaselineRow(opt.inlinePrice, opt.onlinePrice)

BaselineOf(all, table) ==
  [ items |-> [ id \in IdsOf(all) |-> ItemBaseline(FindItem(all, id)) ],
    portions |->
      [ id \in DOMAIN table |->
          [ k \in KeysOf(table[id]) |-> OptionBaseline(FindOption(table[id], k)) ] ] ]

buildBaselinePricing == BaselineOf(allItems, portionOptions)

BASELINE_PRICING == buildBaselinePricing

\* ------------------------------------------------------------------------
\* Override documents (part_000)
\*
\* A JavaScript value stored under a key is [t, v]: t = "num" a finite
\* number v, "numstr" a string that spells the number v ("12.30"),
\* "prefixstr" a string that starts with the number v and goes on with other
\* text ("12abc"), "text" a string with no numeric prefix, "nan", "inf",
\* "null".  An absent key is Undef.
\* ------------------------------------------------------------------------
Num(n) == [t |-> "num", v |-> n]
Undef == [t |-> "undefined", v |-> 0]
NullNum == [t |-> "null", v |-> 0]

\* parseFloat(val) kept when Number.isFinite, else null
Str(t, n) == [t |-> t, v |-> n]

readNumber(val) ==
  IF val.t \in {"num", "numstr", "prefixstr"} THEN Num(val.v) ELSE NullNum

EmptyMap == [k \in {} |-> Undef]
EmptyOverrides == [items |-> EmptyMap, portions |-> EmptyMap]
SetKey(m, k, val) == [x \in DOMAIN m \cup {k} |-> IF x = k THEN val ELSE m[x]]
DelKey(m, k) == [x \in DOMAIN m \ {k} |-> m[x]]

Lookup(m, k) == IF k \in DOMAIN m THEN m[k] ELSE Undef
Lookup2(m, k1, k2) ==
  IF k1 \in DOMAIN m THEN Lookup(m[k1], k2) ELSE Undef

NoPricing == [markup |-> 0, ok |-> FALSE, inline |-> 0, online |-> 0]

\* Mutant: the online price is the baseline online price, not inline + markup
EffectiveAt_baselineOnline(base, inline) ==
  [markup |-> base.markup, ok |-> TRUE, inline |-> inline, online |-> base.onlinePrice]

\* return { inline, online, markup: base.markup }
EffectiveAt(base, inline) ==
  [markup |-> base.markup, ok |-> TRUE, inline |-> inline, online |-> inline + base.markup]

EffectiveWith(base, overrideInline) ==
  EffectiveAt(base, IF overrideInline # NullNum THEN overrideInline.v ELSE base.inlinePrice)

\* Mutant: a portion entry reads the override of its item
getEffectivePricesIn_itemOverrideOnPortion(baseline, itemId, portionKey, overrides) ==
  IF portionKey # NoKey
    THEN IF ~(itemId \in DOMAIN baseline.portions
              /\ portionKey \in DOMAIN baseline.portions[itemId])
           THEN NoPricing
           ELSE EffectiveWith(baseline.portions[itemId][portionKey],
                              readNumber(Lookup(overrides.items, itemId)))
    ELSE IF itemId \notin DOMAIN baseline.items
           THEN NoPricing
           ELSE EffectiveWith(baseline.items[itemId], readNumber(Lookup(overrides.items, itemId)))

\* the body of getEffectivePrices over the baseline table
getEffectivePricesIn(baseline, itemId, portionKey, overrides) ==
  IF portionKey # NoKey
    THEN IF ~(itemId \in DOMAIN baseline.portions
              /\ portionKey \in DOMAIN baseline.portions[itemId])
           THEN NoPricing
           ELSE EffectiveWith(baseline.portions[itemId][portionKey],
                              readNumber(Lookup2(overrides.portions, itemId, portionKey)))
    ELSE IF itemId \notin DOMAIN baseline.items
           THEN NoPricing
           ELSE EffectiveWith(baseline.items[itemId], readNumber(Lookup(overrides.items, itemId)))

getEffectivePrices(itemId, portionKey, overrides) ==
  getEffectivePricesIn(BASELINE_PRICING, itemId, portionKey, overrides)

\* ------------------------------------------------------------------------
\* State
\* ------------------------------------------------------------------------
VARIABLES
  storage,            \* localStorage value under kgPriceOverrides
  storageEvent,       \* a storage event for that key is queued for this page
  priceOverrides,     \* the storefront's cached overrides
  cart,               \* sequence of cart lines
  orderType,          \* value of the checked orderType radio
  proxPending,        \* radio handlers suspended in requireInlineProximity
  geoPending,         \* geocoding / geolocation requests in flight
  deliveryFee,        \* cached delivery fee
  currentTipPercent,  \* [mode |-> "pct", pct |-> n] or [mode |-> "custom", pct |-> 0]
  currentTipAmount,
  inlinePreviewMode,
  tipSectionHidden,
  paymentRequest,     \* [present, total]: the wallet payment-request mirror
  shown,              \* texts of the cart footer, in cents
  rows,               \* per-line price texts of the cart panel, in cents
  portionSel,         \* selected index of each menu card's portion select
  menuPrice,          \* price text of each menu card, in cents
  last,               \* what ran last: "updateOrderType", "storage" (the storage handler),
                      \* "handler" (another handler that ends in updateCartTotals),
                      \* "thanked" (the alert of an accepted in-store order) or "none"
  checkoutOpen,       \* #checkoutOverlay carries the class 'show'
  currentClientSecret,\* [total, present]: the client secret held, if any, and the
                      \* amount in cents its PaymentIntent was created for
  confirmPending,     \* handlers suspended in stripe.confirmCardPayment
  inlineSubmitPending,\* submitInlineOrder calls suspended in requireInlineProximity
  payload,            \* the last order payload sent to the backend
  call,               \* the last direct call of a helper: [fn, args, result]
  geolocation,        \* navigator.geolocation is present in this browser
  orderingClosed      \* the ordering status read from kgOrderingStatus says closed

vars == << storage, storageEvent, priceOverrides, cart, orderType, proxPending,
           geoPending, deliveryFee, currentTipPercent, currentTipAmount,
           inlinePreviewMode, tipSectionHidden, paymentRequest, shown, rows,
           portionSel, menuPrice, last, checkoutOpen, currentClientSecret,
           confirmPending, inlineSubmitPending, payload, call, geolocation, orderingClosed >>

\* ------------------------------------------------------------------------
\* Override store (part_000)
\* ------------------------------------------------------------------------
Doc(o) == [items |-> o.items, portions |-> o.portions, kind |-> "doc"]
MissingRaw == [items |-> EmptyMap, portions |-> EmptyMap, kind |-> "missing"]

\* kind: "missing" (no value), "corrupt" (JSON.parse throws), "null" (JSON
\* null: reading parsed.items throws), "doc" (an object with both maps),
\* "docNoItems", "docNoPortions" (an object lacking that member), "docBare"
\* (a JSON value with neither member: {}, a number, a string)
Raw(kind, items, portions) == [items |-> items, portions |-> portions, kind |-> kind]

UndefinedMember == [undefined |-> Undef]
parsedItems(raw) ==
  IF raw.kind \in {"doc", "docNoPortions"} THEN raw.items ELSE UndefinedMember
parsedPortions(raw) ==
  IF raw.kind \in {"doc", "docNoItems"} THEN raw.portions ELSE UndefinedMember

\* member || {}
OrEmpty(member) == IF member = UndefinedMember THEN EmptyMap ELSE member

Returned(value) == [value |-> value, thrown |-> FALSE]
Thrown == [value |-> EmptyOverrides, thrown |-> TRUE]

\* the try block of loadPriceOverrides
tryLoad(raw) ==
  IF raw.kind = "missing"
    THEN Returned(EmptyOverrides)
    ELSE IF raw.kind \in {"corrupt", "null"}
           THEN Thrown
           ELSE Returned([items |-> OrEmpty(parsedItems(raw)),
                          portions |-> OrEmpty(parsedPortions(raw))])

\* Mutant: no catch clause
caught_rethrown(outcome) == outcome

\* the catch clause: warn and return the empty overrides
caught(outcome) == IF outcome.thrown THEN Returned(EmptyOverrides) ELSE outcome

loadPriceOverridesOutcome(raw) == caught(tryLoad(raw))

loadPriceOverrides(raw) == loadPriceOverridesOutcome(raw).value

\* setItem either stores the document or throws (quota) and leaves the old value
savePriceOverrides(raw, next, ok) == IF ok THEN Doc(next) ELSE raw

WithOverride(o, e, val) ==
  IF e[2] = NoKey
    THEN [o EXCEPT !.items = SetKey(@, e[1], val)]
    ELSE [o EXCEPT !.portions =
            SetKey(@, e[1], SetKey(IF e[1] \in DOMAIN @ THEN @[e[1]] ELSE EmptyMap, e[2], val))]

WithoutOverride(o, e) ==
  IF e[2] = NoKey
    THEN [o EXCEPT !.items = DelKey(@, e[1])]
    ELSE IF e[1] \notin DOMAIN o.portions
           THEN o
           ELSE IF DOMAIN o.portions[e[1]] \subseteq {e[2]}
                  THEN [o EXCEPT !.portions = DelKey(@, e[1])]
                  ELSE [o EXCEPT !.portions[e[1]] = DelKey(@, e[2])]

Overridden(o) ==
  { e \in Entries :
      IF e[2] = NoKey THEN e[1] \in DOMAIN o.items
      ELSE e[1] \in DOMAIN o.portions /\ e[2] \in DOMAIN o.portions[e[1]] }

\* ------------------------------------------------------------------------
\* Storefront script (part_001): pure helpers
\*
\* The handlers below are functions over the record s of the script's
\* mutable state; an action applies one handler to the current state.
\* ------------------------------------------------------------------------
formatCurrency(value) == RoundCents(value)

\* currency of src/script.js: the amount in cents that toFixed(2) spells
currency(value) == RoundCents(value)

RECURSIVE SumLines(_)
SumLines(c) ==
  IF c = << >> THEN 0 ELSE c[1].price * c[1].quantity + SumLines(Tail(c))

SumSeq(q) == SumLines([i \in 1..Len(q) |-> [price |-> q[i], quantity |-> 1]])

FirstIdx(c, Test(_)) ==
  IF \E i \in 1..Len(c) : Test(c[i])
    THEN CHOOSE i \in 1..Len(c) : Test(c[i]) /\ \A j \in 1..(i - 1) : ~Test(c[j])
    ELSE 0

RemoveAt(c, i) == [j \in 1..(Len(c) - 1) |-> IF j < i THEN c[j] ELSE c[j + 1]]

NullPrice == 0 - 1

\* Mutant: the delivery fee and the tip are never suppressed
computeTotals_noSuppression(s) ==
  LET subtotal == SumLines(s.cart)
      fees == 0
      delivery == s.deliveryFee
      tip == s.currentTipAmount
  IN  [deliveryFee |-> delivery, subtotal |-> subtotal, fees |-> fees, tip |-> tip,
       grand |-> subtotal + fees + delivery + tip]

\* Mutant: the delivery fee is suppressed for inline only
computeTotals_feeOutsideInline(s) ==
  LET subtotal == SumLines(s.cart)
      fees == 0
      delivery == IF s.orderType # "inline" THEN s.deliveryFee ELSE 0
      tip == IF s.orderType = "delivery" THEN s.currentTipAmount ELSE 0
  IN  [deliveryFee |-> delivery, subtotal |-> subtotal, fees |-> fees, tip |-> tip,
       grand |-> subtotal + fees + delivery + tip]

\* Mutant: the grand total leaves the tip out
computeTotals_grandWithoutTip(s) ==
  LET subtotal == SumLines(s.cart)
      fees == 0
      delivery == IF s.orderType = "delivery" THEN s.deliveryFee ELSE 0
      tip == IF s.orderType = "delivery" THEN s.currentTipAmount ELSE 0
  IN  [deliveryFee |-> delivery, subtotal |-> subtotal, fees |-> fees, tip |-> tip,
       grand |-> subtotal + fees + delivery]

computeTotals(s) ==
  LET subtotal == SumLines(s.cart)
      fees == 0
      delivery == IF s.orderType = "delivery" THEN s.deliveryFee ELSE 0
      tip == IF s.orderType = "delivery" THEN s.currentTipAmount ELSE 0
  IN  [deliveryFee |-> delivery, subtotal |-> subtotal, fees |-> fees, tip |-> tip,
       grand |-> subtotal + fees + delivery + tip]

\* computeTotals also leaves preview mode whenever the channel is not inline
computeTotalsEffect(s) ==
  IF s.orderType # "inline" THEN [s EXCEPT !.inlinePreviewMode = FALSE] ELSE s

\* Mutant: the base fee alone
computeDeliveryFee_baseOnly(distanceMilli) == P(3, 0)

computeDeliveryFee(distanceMilli) == P(3, 0) + (distanceMilli * P(1, 0)) \div 1000

PricingOf(inline, online) ==
  [markup |-> online - inline, ok |-> TRUE, inline |-> inline, online |-> online]

\* opts.find(o => o.key === portionKey) || opts[0]
OptionOrFirst(options, k) ==
  IF k \in KeysOf(options) THEN FindOption(options, k) ELSE options[1]

portionFallback(table, itemId, portionKey) ==
  IF itemId \in DOMAIN table
    THEN PricingOf(OptionOrFirst(table[itemId], portionKey).inlinePrice,
                   OptionOrFirst(table[itemId], portionKey).onlinePrice)
    ELSE NoPricing

\* getEffectivePricingForItem once getEffectivePrices has answered pricing
pricingOrFallback(pricing, item, portionKey) ==
  IF pricing.ok THEN pricing
  ELSE IF portionKey # NoKey
    THEN portionFallback(portionOptions, item.id, portionKey)
    ELSE PricingOf(computeInlineBasePrice(item.price, item.id), item.price)

getEffectivePricingForItem(item, portionKey, overrides) ==
  pricingOrFallback(getEffectivePrices(item.id, portionKey, overrides), item, portionKey)

\* orderType === 'inline' ? pricing.inline : pricing.online, or a default without pricing
ChannelPrice(pricing, ot, inlineDefault, onlineDefault) ==
  IF pricing.ok
    THEN (IF ot = "inline" THEN pricing.inline ELSE pricing.online)
    ELSE (IF ot = "inline" THEN inlineDefault ELSE onlineDefault)

\* options[portionKeyOrIndex] || options[0], index being the 1-based position in the select
IndexedOption(options, index) ==
  IF index \in 1..Len(options) THEN options[index] ELSE options[1]

portionPriceWith(opt, pricing, ot) ==
  [ price |-> ChannelPrice(pricing, ot, opt.inlinePrice, opt.onlinePrice),
    opt |-> [key |-> opt.key,
             onlinePrice |-> IF pricing.ok THEN pricing.online ELSE opt.onlinePrice,
             inlinePrice |-> IF pricing.ok THEN pricing.inline ELSE opt.inlinePrice] ]

portionPriceOf(opt, itemId, ot, overrides) ==
  portionPriceWith(opt, getEffectivePricingForItem([id |-> itemId, price |-> 0], opt.key, overrides), ot)

getPortionPriceForOrderType(itemId, index, ot, overrides) ==
  portionPriceOf(IndexedOption(portionOptions[itemId], index), itemId, ot, overrides)

\* the menu cards whose price label the model follows
MenuCards == {"chicken_wings", "cassava_leaf"}

itemCardPrice(item, ot, overrides) ==
  ChannelPrice(getEffectivePricingForItem(item, NoKey, overrides), ot, item.price, item.price)

\* displayed price of one menu card
CardPrice(id, sel, ot, overrides) ==
  IF id \in DOMAIN sel
    THEN getPortionPriceForOrderType(id, sel[id], ot, overrides).price
    ELSE itemCardPrice(ItemOf(id), ot, overrides)

menuPrices(sel, ot, overrides) ==
  [id \in MenuCards |-> formatCurrency(CardPrice(id, sel, ot, overrides))]

\* ------------------------------------------------------------------------
\* Storefront script (part_001): handlers as functions of the state record
\* ------------------------------------------------------------------------
PctMode(p) == [mode |-> "pct", pct |-> p]
CustomMode == [mode |-> "custom", pct |-> 0]

\* Mutant: the section is hidden but the tip values are kept
updateTipSection_keepsTip(s) ==
  IF s.orderType # "delivery" \/ Len(s.cart) = 0
    THEN [s EXCEPT !.tipSectionHidden = TRUE,
                   !.shown.tip = formatCurrency(0)]
    ELSE [s EXCEPT !.tipSectionHidden = FALSE,
                   !.shown.tip = formatCurrency(s.currentTipAmount)]

updateTipSection(s) ==
  IF s.orderType # "delivery" \/ Len(s.cart) = 0
    THEN [s EXCEPT !.tipSectionHidden = TRUE,
                   !.currentTipPercent = PctMode(0),
                   !.currentTipAmount = 0,
                   !.shown.tip = formatCurrency(0)]
    ELSE [s EXCEPT !.tipSectionHidden = FALSE,
                   !.shown.tip = formatCurrency(s.currentTipAmount)]

\* updateCartTotals with the breakdown computeTotals returned
showTotals(s, totals) ==
  LET shownDelivery ==
        IF s.orderType = "delivery" /\ totals.deliveryFee > 0
          THEN formatCurrency(totals.deliveryFee) ELSE formatCurrency(0)
      shownFees ==
        IF s.orderType = "inline" \/ totals.subtotal = 0 \/ totals.fees <= 0
          THEN formatCurrency(0) ELSE formatCurrency(totals.fees)
  IN  [s EXCEPT !.shown.subtotal = formatCurrency(totals.subtotal),
                !.shown.total = formatCurrency(totals.grand),
                !.shown.deliveryFee = shownDelivery,
                !.shown.fees = shownFees,
                !.paymentRequest =
                   IF @.present
                     THEN [total |-> RoundCents(totals.grand), present |-> TRUE]
                     ELSE @]

updateCartTotals(s) ==
  updateTipSection(showTotals(computeTotalsEffect(s), computeTotals(s)))

renderRows(s) ==
  [s EXCEPT !.rows =
     [i \in 1..Len(s.cart) |-> formatCurrency(s.cart[i].price * s.cart[i].quantity)]]

renderCart(s) == updateTipSection(updateCartTotals(renderRows(s)))

\* one cart line in applyPricingForOrderType, pricing being getEffectivePricingForItem's answer
repriced(ci, pricing, ot) ==
  LET baseOnline == IF pricing.ok THEN pricing.online
                    ELSE IF ci.baseOnlinePrice # NullPrice THEN ci.baseOnlinePrice
                    ELSE ci.price
      baseInline == IF pricing.ok THEN pricing.inline
                    ELSE IF ci.baseInlinePrice # NullPrice THEN ci.baseInlinePrice
                    ELSE computeInlineBasePrice(baseOnline, ci.id)
  IN  [ci EXCEPT !.baseOnlinePrice = baseOnline,
                 !.baseInlinePrice = baseInline,
                 !.price = IF ot = "inline" THEN baseInline ELSE baseOnline]

RepriceLine(ci, ot, overrides) ==
  repriced(ci, getEffectivePricingForItem(ci, ci.key, overrides), ot)

\* Mutant: lines with a portion key keep their price
applyPricingForOrderType_skipPortionLines(s) ==
  [s EXCEPT
     !.menuPrice = menuPrices(s.portionSel, s.orderType, s.priceOverrides),
     !.cart = [i \in 1..Len(s.cart) |->
                 IF s.cart[i].key # NoKey THEN s.cart[i]
                 ELSE RepriceLine(s.cart[i], s.orderType, s.priceOverrides)]]

applyPricingForOrderType(s) ==
  [s EXCEPT
     !.menuPrice = menuPrices(s.portionSel, s.orderType, s.priceOverrides),
     !.cart = [i \in 1..Len(s.cart) |-> RepriceLine(s.cart[i], s.orderType, s.priceOverrides)]]

FirstOptions == [id \in PortionedIds |-> 1]

\* rebuilding the cards puts every portion select back on its first option
renderMenu(s) ==
  [s EXCEPT !.portionSel = FirstOptions,
            !.menuPrice = menuPrices(FirstOptions, s.orderType, s.priceOverrides)]

\* portionOption is an option record, or NoOption for a plain add
NoOption == [key |-> NoKey, onlinePrice |-> 0, inlinePrice |-> 0]

\* Mutant: an existing line is matched by item id alone
lineAdded_matchById(s, item, portionOption, pricing) ==
  LET baseOnlinePrice == IF pricing.ok THEN pricing.online ELSE item.price
      inline0 == IF pricing.ok THEN pricing.inline ELSE NullPrice
      plateOptionKey == portionOption.key
      baseInlinePrice ==
        IF portionOption # NoOption THEN inline0
        ELSE IF inline0 # NullPrice THEN inline0
        ELSE computeInlineBasePrice(baseOnlinePrice, item.id)
      effectivePrice ==
        IF s.orderType = "inline"
          THEN (IF baseInlinePrice # NullPrice THEN baseInlinePrice ELSE baseOnlinePrice)
          ELSE baseOnlinePrice
      Same(ci) == ci.id = item.id
      idx == FirstIdx(s.cart, Same)
  IN  IF idx # 0
        THEN [s EXCEPT !.cart[idx] = [@ EXCEPT !.quantity = @ + 1,
                                               !.price = effectivePrice,
                                               !.baseOnlinePrice = baseOnlinePrice,
                                               !.baseInlinePrice = baseInlinePrice]]
        ELSE [s EXCEPT !.cart = Append(@, [id |-> item.id, price |-> effectivePrice,
                                           key |-> plateOptionKey, quantity |-> 1,
                                           baseOnlinePrice |-> baseOnlinePrice,
                                           baseInlinePrice |-> baseInlinePrice])]

addToCart_matchById(s, item, portionOption) ==
  updateCartTotals(renderCart(
    lineAdded_matchById(s, item, portionOption,
                        getEffectivePricingForItem(item, portionOption.key, s.priceOverrides))))

\* the cart after addToCart's find / push, pricing being getEffectivePricingForItem's answer
lineAdded(s, item, portionOption, pricing) ==
  LET baseOnlinePrice == IF pricing.ok THEN pricing.online ELSE item.price
      inline0 == IF pricing.ok THEN pricing.inline ELSE NullPrice
      plateOptionKey == portionOption.key
      baseInlinePrice ==
        IF portionOption # NoOption THEN inline0
        ELSE IF inline0 # NullPrice THEN inline0
        ELSE computeInlineBasePrice(baseOnlinePrice, item.id)
      effectivePrice ==
        IF s.orderType = "inline"
          THEN (IF baseInlinePrice # NullPrice THEN baseInlinePrice ELSE baseOnlinePrice)
          ELSE baseOnlinePrice
      Same(ci) == ci.id = item.id /\ ci.key = plateOptionKey
      idx == FirstIdx(s.cart, Same)
  IN  IF idx # 0
        THEN [s EXCEPT !.cart[idx] = [@ EXCEPT !.quantity = @ + 1,
                                               !.price = effectivePrice,
                                               !.baseOnlinePrice = baseOnlinePrice,
                                               !.baseInlinePrice = baseInlinePrice]]
        ELSE [s EXCEPT !.cart = Append(@, [id |-> item.id, price |-> effectivePrice,
                                           key |-> plateOptionKey, quantity |-> 1,
                                           baseOnlinePrice |-> baseOnlinePrice,
                                           baseInlinePrice |-> baseInlinePrice])]

addToCart(s, item, portionOption) ==
  updateCartTotals(renderCart(
    lineAdded(s, item, portionOption,
              getEffectivePricingForItem(item, portionOption.key, s.priceOverrides))))

\* Mutant: a line decremented to zero stays in the cart
updateQuantity_keepsLine(s, itemId, delta) ==
  LET Same(ci) == ci.id = itemId
      idx == FirstIdx(s.cart, Same)
      bumped == [s.cart EXCEPT ![idx].quantity = @ + delta]
      newCart == bumped
  IN  IF idx = 0 THEN s ELSE renderCart([s EXCEPT !.cart = newCart])

updateQuantity(s, itemId, delta) ==
  LET Same(ci) == ci.id = itemId
      idx == FirstIdx(s.cart, Same)
      bumped == [s.cart EXCEPT ![idx].quantity = @ + delta]
      newCart == IF bumped[idx].quantity <= 0 THEN RemoveAt(bumped, idx) ELSE bumped
  IN  IF idx = 0 THEN s ELSE renderCart([s EXCEPT !.cart = newCart])

\* the geocoding / geolocation request of the delivery branch is started by the action
updateOrderType(s) ==
  LET s1 == IF s.orderType = "delivery"
              THEN s
              ELSE updateCartTotals([s EXCEPT !.deliveryFee = 0])
  IN  updateCartTotals(updateTipSection(renderCart(applyPricingForOrderType(s1))))

INLINE_RADIUS_MILES == 1000          \* 1.0 mile, in thousandths of a mile

\* what getCurrentPosition delivers: a position whose distance to the
\* restaurant computeDistanceMiles gives as v thousandths of a mile, or an error
Fix(dMiles) == [t |-> "fix", v |-> dMiles]
NoFix == [t |-> "error", v |-> 0]

setInlinePreviewMode(s, enabled) == [s EXCEPT !.inlinePreviewMode = enabled]

\* the promise's outcome: the state it leaves and the value it resolves to
Resolved(s, value) == [state |-> s, resolved |-> value]

\* Mutant: the radius of the function's comment, 0.2 miles
requireInlineProximity_fifthOfAMile(s, supported, position, allowPreviewMode) ==
  IF ~supported THEN Resolved(s, FALSE)
  ELSE IF position.t = "fix"
    THEN IF position.v <= 200
           THEN Resolved(setInlinePreviewMode(s, FALSE), TRUE)
           ELSE Resolved(setInlinePreviewMode(s, TRUE), allowPreviewMode)
    ELSE Resolved(setInlinePreviewMode(s, FALSE), FALSE)

requireInlineProximity(s, supported, position, allowPreviewMode) ==
  IF ~supported THEN Resolved(s, FALSE)
  ELSE IF position.t = "fix"
    THEN IF position.v <= INLINE_RADIUS_MILES
           THEN Resolved(setInlinePreviewMode(s, FALSE), TRUE)
           ELSE Resolved(setInlinePreviewMode(s, TRUE), allowPreviewMode)
    ELSE Resolved(setInlinePreviewMode(s, FALSE), FALSE)

\* one call of requireInlineProximity as the call variable keeps it
ProximityCall(position, allowPreviewMode, r) ==
  [fn |-> "requireInlineProximity", args |-> << position, allowPreviewMode >>,
   result |-> [inlinePreviewMode |-> r.state.inlinePreviewMode, resolved |-> r.resolved]]

\* the radio handler after requireInlineProximity({allowPreviewMode: true}):
\* not ok checks the pickup radio; then updateOrderType
radioInlineResumed(r) ==
  updateOrderType(IF r.resolved THEN r.state ELSE [r.state EXCEPT !.orderType = "pickup"])

showMapAndDistance(s, distanceMilli) ==
  updateCartTotals([s EXCEPT !.deliveryFee = computeDeliveryFee(distanceMilli)])

tipButtonClick(s, pctAttr) ==
  LET subtotal == SumLines(s.cart)
      fees == subtotal \div 10
      base == subtotal + fees + s.deliveryFee
      s1 == IF pctAttr = CustomMode
              THEN [s EXCEPT !.currentTipPercent = CustomMode]
              ELSE [s EXCEPT !.currentTipPercent = pctAttr,
                             !.currentTipAmount = (base * pctAttr.pct) \div 100]
  IN  updateCartTotals(s1)

\* val is the parsed entry: [t, v] as for override values
customTipInput(s, val) ==
  updateCartTotals(
    [s EXCEPT !.currentTipPercent = CustomMode,
              !.currentTipAmount = IF val.t \in {"num", "numstr"} /\ val.v > 0
                                     THEN val.v ELSE 0])

storageOverrideHandler(s, raw) ==
  LET s1 == [s EXCEPT !.priceOverrides = loadPriceOverrides(raw)]
  IN  updateCartTotals(renderMenu(applyPricingForOrderType(s1)))

\* cart.map(...) of the order payloads: quantity and unit price in cents
SubmittedLines(c) ==
  [i \in 1..Len(c) |-> [id |-> c[i].id, key |-> c[i].key, quantity |-> c[i].quantity,
                        unitPrice |-> RoundCents(c[i].price)]]

NoCall == [fn |-> "none", args |-> << >>, result |-> 0]

\* currentClientSecret: null, or the secret of the intent created for amount cents
NoSecret == [total |-> 0, present |-> FALSE]
SecretFor(amount) == [total |-> amount, present |-> TRUE]

NoPayload == [items |-> << >>, kind |-> "none", total |-> 0, fulfilment |-> "none"]

\* an order payload built from the breakdown computeTotals returned
PayloadOf(kind, fulfilment, totals, c) ==
  [items |-> SubmittedLines(c), kind |-> kind, total |-> RoundCents(totals.grand),
   fulfilment |-> fulfilment]

\* body of the checkout_initiated notification: the handler's own preview of
\* the total, whatever the channel
previewOrder(s) ==
  [items |-> SubmittedLines(s.cart), kind |-> "checkout_initiated",
   total |-> RoundCents(SumLines(s.cart) + s.deliveryFee + SumLines(s.cart) \div 10
                          + s.currentTipAmount),
   fulfilment |-> "none"]

\* body of POST /create-payment-intent
createPaymentIntentPayload(s) ==
  PayloadOf("intent", s.orderType, computeTotals(s), s.cart)

\* startStripeCheckout: body of POST /create-checkout-session; the cart lines,
\* then the delivery fee and the fees as lines of their own when positive;
\* total is what the lines and tipCents add up to
startStripeCheckout(s) ==
  LET totals == computeTotals(s)
      fee(id, amount) ==
        IF RoundCents(amount) > 0
          THEN << [id |-> id, key |-> NoKey, quantity |-> 1,
                   unitPrice |-> RoundCents(amount)] >>
          ELSE << >>
      lines == SubmittedLines(s.cart) \o fee("delivery_fee", totals.deliveryFee)
                 \o fee("service_tax", totals.fees)
  IN  [items |-> lines, kind |-> "session",
       total |-> SumLines([i \in 1..Len(lines) |->
                            [price |-> lines[i].unitPrice, quantity |-> lines[i].quantity]])
                   + RoundCents(totals.tip),
       fulfilment |-> s.orderType]

\* handleOrderSuccess: body of the 'paid' notification, then the reset
paidOrder(s) == PayloadOf("paid", s.orderType, computeTotals(s), s.cart)

handleOrderSuccess(s) == renderCart([s EXCEPT !.cart = << >>])

\* submitInlineOrder after requireInlineProximity resolved true: body of
\* POST /line-order, then the reset once the backend accepted it
inlineOrderPayload(s) == PayloadOf("inline", "inline", computeTotals(s), s.cart)

\* Mutant: the reset the accepted branch was written for
inlineOrderAccepted_cartReset(s) ==
  Resolved(updateCartTotals(renderCart([s EXCEPT !.cart = << >>])), TRUE)

\* the accepted branch after its alert: cart = [] assigns to the binding that
\* line 76 declares with const, which throws a TypeError; the catch clause of
\* submitInlineOrder shows its message and returns false, and the reset that
\* follows the assignment never runs
inlineOrderAccepted(s) == Resolved(s, FALSE)


\* ------------------------------------------------------------------------
\* Inputs exercised by the model
\* ------------------------------------------------------------------------
Channels == {"pickup", "delivery", "inline"}
StoreItems == MenuCards                               \* cards the customer uses
SelIndices == {1, 2}                                  \* options picked in a select
StoreTargets == { <<"chicken_wings", "2_wings">> }   \* entry overridden in the storefront specification
ResolverTargets ==                                    \* entries overridden in the resolver specification
  { <<"chicken_wings", NoKey>>, <<"chicken_wings", "2_wings">>, <<"chicken_wings", "3_wings">>,
    <<"beef_kabobs", "3_kabobs">>, <<"cassava_leaf", NoKey>>, <<"side_chicken_wing", NoKey>>,
    <<"jollof_rice", NoKey>> }
StoreOverrideValues == { Num(P(12, 30)) }
ResolverOverrideValues == { Num(0), Num(P(10, 0)), Num(P(12, 30)) }
Distances == {2500}                                   \* thousandths of a mile
DeliveryDistances == {0, 1, 1000, 2500, 7250}         \* thousandths of a mile
ProxPositions == { Fix(0), Fix(1000), Fix(1001), Fix(2500), NoFix }
TipPercents == { PctMode(15) }
OrderingChannels == {"pickup"}                        \* radios clicked in the ordering specification, in-store apart
OrderingPositions == { Fix(1000), Fix(2500), NoFix }  \* positions read in the ordering specification
CheckoutItems == {"chicken_wings"}                    \* card used in the checkout specification
UnknownTargets ==                                     \* entries the baseline does not hold
  { <<"lemonade", NoKey>>, <<"chicken_wings", "9_wings">>, <<"cassava_leaf", "2_wings">> }
CallTargets == ResolverTargets \cup UnknownTargets
CallOverrideValues ==                                 \* values found under an override key
  { Undef, NullNum, Str("text", 0), Str("nan", 0), Str("inf", 0), Str("prefixstr", P(12, 0)),
    Str("numstr", P(12, 30)), Num(P(12, 30)) }
StoredItems == SetKey(EmptyMap, "cassava_leaf", Num(P(20, 0)))
StoredPortions == SetKey(EmptyMap, "chicken_wings", SetKey(EmptyMap, "3_wings", Num(P(12, 30))))
CallRawDocs ==                                        \* values stored under kgPriceOverrides
  { MissingRaw, Raw("corrupt", EmptyMap, EmptyMap), Raw("null", EmptyMap, EmptyMap),
    Raw("doc", StoredItems, StoredPortions), Raw("doc", EmptyMap, StoredPortions),
    Raw("docNoItems", EmptyMap, StoredPortions), Raw("docNoPortions", StoredItems, EmptyMap),
    Raw("docBare", EmptyMap, EmptyMap) }
CallPrices ==                                         \* prices passed to computeInlineBasePrice
  { P(0, 50), P(3, 50), P(11, 0), P(15, 50), P(16, 0), P(16, 50), P(21, 50) }
CustomTipEntries == { Num(P(2, 0)), [t |-> "nan", v |-> 0] }
UnlistedItem == [id |-> "lemonade", price |-> P(21, 50)]   \* an item the baseline does not hold
UnlistedOption == [key |-> "9_wings", onlinePrice |-> P(20, 0), inlinePrice |-> P(18, 0)]
CallAdds ==                                           \* item and portion option passed to addToCart
  { << UnlistedItem, NoOption >>, << ItemOf("chicken_wings"), UnlistedOption >>,
    << ItemOf("cassava_leaf"), UnlistedOption >>, << ItemOf("cassava_leaf"), NoOption >>,
    << ItemOf("chicken_wings"), OptionOf("chicken_wings", "3_wings") >> }

\* ------------------------------------------------------------------------
\* The state record
\* ------------------------------------------------------------------------
Cur ==
  [ priceOverrides |-> priceOverrides, cart |-> cart, orderType |-> orderType,
    deliveryFee |-> deliveryFee, currentTipPercent |-> currentTipPercent,
    currentTipAmount |-> currentTipAmount, inlinePreviewMode |-> inlinePreviewMode,
    tipSectionHidden |-> tipSectionHidden, paymentRequest |-> paymentRequest,
    shown |-> shown, rows |-> rows, portionSel |-> portionSel, menuPrice |-> menuPrice ]

Assign(s) ==
  /\ priceOverrides' = s.priceOverrides
  /\ cart' = s.cart
  /\ orderType' = s.orderType
  /\ deliveryFee' = s.deliveryFee
  /\ currentTipPercent' = s.currentTipPercent
  /\ currentTipAmount' = s.currentTipAmount
  /\ inlinePreviewMode' = s.inlinePreviewMode
  /\ tipSectionHidden' = s.tipSectionHidden
  /\ paymentRequest' = s.paymentRequest
  /\ shown' = s.shown
  /\ rows' = s.rows
  /\ portionSel' = s.portionSel
  /\ menuPrice' = s.menuPrice

\* a handler's result taken as the next state, quantities within the bound
BoundedAssign(s) ==
  /\ \A i \in 1..Len(s.cart) : s.cart[i].quantity <= MaxQty
  /\ Assign(s)

\* module load of part_001, before the DOMContentLoaded handler
Loaded(raw, savedOrderType) ==
  [ priceOverrides |-> loadPriceOverrides(raw), cart |-> << >>,
    orderType |-> savedOrderType, deliveryFee |-> 0,
    currentTipPercent |-> PctMode(0), currentTipAmount |-> 0,
    inlinePreviewMode |-> FALSE, tipSectionHidden |-> TRUE,
    paymentRequest |-> [total |-> 0, present |-> FALSE],
    shown |-> [deliveryFee |-> 0, subtotal |-> 0, fees |-> 0, tip |-> 0, total |-> 0],
    rows |-> << >>, portionSel |-> [id \in PortionedIds |-> 1],
    menuPrice |-> [id \in MenuCards |-> 0] ]

\* DOMContentLoaded: renderMenu, loadSavedDetails, updateOrderType, renderCart
Started(raw, savedOrderType) ==
  renderCart(updateOrderType(renderMenu(Loaded(raw, savedOrderType))))

InitAssign(s) ==
  /\ priceOverrides = s.priceOverrides
  /\ cart = s.cart
  /\ orderType = s.orderType
  /\ deliveryFee = s.deliveryFee
  /\ currentTipPercent = s.currentTipPercent
  /\ currentTipAmount = s.currentTipAmount
  /\ inlinePreviewMode = s.inlinePreviewMode
  /\ tipSectionHidden = s.tipSectionHidden
  /\ paymentRequest = s.paymentRequest
  /\ shown = s.shown
  /\ rows = s.rows
  /\ portionSel = s.portionSel
  /\ menuPrice = s.menuPrice

\* the page as loaded in a browser whose geolocation support is one of browsers
InitIn(browsers) ==
  /\ storage = MissingRaw
  /\ storageEvent = FALSE
  /\ \E saved \in Channels :
       /\ InitAssign(Started(MissingRaw, saved))
       /\ geoPending \in (IF saved = "delivery" THEN {0, 1} ELSE {0})
  /\ proxPending = 0
  /\ last = "none"
  /\ checkoutOpen = FALSE
  /\ currentClientSecret = NoSecret
  /\ confirmPending = 0
  /\ inlineSubmitPending = 0
  /\ payload = NoPayload
  /\ call = NoCall
  /\ geolocation \in browsers

\* ordering is open when the page loads
Init == InitIn({TRUE}) /\ orderingClosed = FALSE

\* ------------------------------------------------------------------------
\* Actions
\* ------------------------------------------------------------------------
storeVars == << priceOverrides, cart, orderType, proxPending, geoPending, deliveryFee,
                currentTipPercent, currentTipAmount, inlinePreviewMode,
                tipSectionHidden, paymentRequest, shown, rows, portionSel, menuPrice,
                last, checkoutOpen, currentClientSecret, confirmPending,
                inlineSubmitPending, payload, call, geolocation, orderingClosed >>

storeVarsOfPage == << priceOverrides, cart, orderType, proxPending, geoPending,
                      deliveryFee, currentTipPercent, currentTipAmount,
                      inlinePreviewMode, tipSectionHidden, paymentRequest, shown,
                      rows, portionSel, menuPrice >>

checkoutVars == << checkoutOpen, currentClientSecret, confirmPending,
                   inlineSubmitPending, payload >>

\* ensureOrderingOpenOrWarn(): true while ordering is open; closed, it alerts
\* the closed message and the caller returns
ensureOrderingOpenOrWarn == ~orderingClosed

\* another page loads the document, sets one override and saves it
AdminSetOverride(e, val, ok) ==
  LET next == WithOverride(loadPriceOverrides(storage), e, val)
  IN  /\ Cardinality(Overridden(next)) <= MaxOverridden
      /\ storage' = savePriceOverrides(storage, next, ok)
      /\ storageEvent' = (storageEvent \/ storage' # storage)
      /\ UNCHANGED storeVars

AdminClearOverride(e, ok) ==
  LET next == WithoutOverride(loadPriceOverrides(storage), e)
  IN  /\ e \in Overridden(loadPriceOverrides(storage))
      /\ storage' = savePriceOverrides(storage, next, ok)
      /\ storageEvent' = (storageEvent \/ storage' # storage)
      /\ UNCHANGED storeVars

\* window 'storage' event for PRICE_OVERRIDE_STORAGE_KEY
StorageEvent ==
  /\ storageEvent
  /\ storageEvent' = FALSE
  /\ Assign(storageOverrideHandler(Cur, storage))
  /\ last' = "storage"
  /\ UNCHANGED checkoutVars
  /\ UNCHANGED << call, geolocation, orderingClosed >>
  /\ UNCHANGED << storage, proxPending, geoPending >>

\* click on a card's Add to Cart button
MenuAddClick(id) ==
  LET item == ItemOf(id)
      selectedPortion ==
        IF id \in PortionedIds
          THEN getPortionPriceForOrderType(id, portionSel[id], orderType, priceOverrides).opt
          ELSE NoOption
  IN  /\ IF ensureOrderingOpenOrWarn
           THEN /\ BoundedAssign(addToCart(Cur, item, selectedPortion))
                /\ last' = "handler"
           ELSE /\ Assign(Cur)
                /\ UNCHANGED last
      /\ UNCHANGED checkoutVars
      /\ UNCHANGED << call, geolocation, orderingClosed >>
      /\ UNCHANGED << storage, storageEvent, proxPending, geoPending >>

\* change of a card's portion select
PortionSelectChange(id, index) ==
  /\ portionSel[id] # index
  /\ portionSel' = [portionSel EXCEPT ![id] = index]
  /\ menuPrice' = [menuPrice EXCEPT ![id] =
       formatCurrency(getPortionPriceForOrderType(id, index, orderType, priceOverrides).price)]
  /\ last' = "none"
  /\ UNCHANGED checkoutVars
  /\ UNCHANGED << call, geolocation, orderingClosed >>
  /\ UNCHANGED << storage, storageEvent, priceOverrides, cart, orderType, proxPending,
                  geoPending, deliveryFee, currentTipPercent, currentTipAmount,
                  inlinePreviewMode, tipSectionHidden, paymentRequest, shown, rows >>

\* click on the - or + button of cart row i
QuantityClick(i, delta) ==
  /\ BoundedAssign(updateQuantity(Cur, cart[i].id, delta))
  /\ last' = "handler"
  /\ UNCHANGED checkoutVars
  /\ UNCHANGED << call, geolocation, orderingClosed >>
  /\ UNCHANGED << storage, storageEvent, proxPending, geoPending >>

\* in the delivery branch updateOrderType starts a geocoding or geolocation
\* request, which may also fail at once
StartGeo(ot) ==
  \/ geoPending' = geoPending
  \/ ot = "delivery" /\ geoPending < MaxPending /\ geoPending' = geoPending + 1

\* change of the orderType radio to pickup or delivery
RadioChange(v) ==
  /\ v # orderType
  /\ v # "inline"
  /\ Assign(updateOrderType([Cur EXCEPT !.orderType = v]))
  /\ StartGeo(v)
  /\ last' = "updateOrderType"
  /\ UNCHANGED checkoutVars
  /\ UNCHANGED << call, geolocation, orderingClosed >>
  /\ UNCHANGED << storage, storageEvent, proxPending >>

\* change of the radio to inline: the handler waits for requireInlineProximity
RadioChangeInline ==
  /\ geolocation
  /\ orderType # "inline"
  /\ proxPending < MaxPending
  /\ orderType' = "inline"
  /\ proxPending' = proxPending + 1
  /\ last' = "none"
  /\ UNCHANGED checkoutVars
  /\ UNCHANGED << call, geolocation, orderingClosed >>
  /\ UNCHANGED << storage, storageEvent, priceOverrides, cart, geoPending, deliveryFee,
                  currentTipPercent, currentTipAmount, inlinePreviewMode,
                  tipSectionHidden, paymentRequest, shown, rows, portionSel, menuPrice >>

\* the same change in a browser without navigator.geolocation: the promise
\* resolves false at once; the radio was already checked, so the handler
\* checks the pickup radio and runs updateOrderType
RadioChangeInlineUnsupported ==
  /\ ~geolocation
  /\ orderType # "inline"
  /\ Assign(radioInlineResumed(
              requireInlineProximity([Cur EXCEPT !.orderType = "inline"], geolocation, NoFix, TRUE)))
  /\ call' = ProximityCall(NoFix, TRUE,
                requireInlineProximity([Cur EXCEPT !.orderType = "inline"], geolocation, NoFix, TRUE))
  /\ last' = "updateOrderType"
  /\ UNCHANGED checkoutVars
  /\ UNCHANGED << geolocation, orderingClosed, storage, storageEvent, proxPending, geoPending >>

\* requireInlineProximity({allowPreviewMode: true}) resolves; the handler resumes
ProximityResultStep(position) ==
  LET r == requireInlineProximity(Cur, geolocation, position, TRUE)
  IN  /\ proxPending > 0
      /\ proxPending' = proxPending - 1
      /\ Assign(radioInlineResumed(r))
      /\ StartGeo(IF r.resolved THEN r.state.orderType ELSE "pickup")
      /\ last' = "updateOrderType"
      /\ UNCHANGED checkoutVars
      /\ UNCHANGED << geolocation, orderingClosed, storage, storageEvent >>

ProximityResult(position) ==
  /\ ProximityResultStep(position)
  /\ UNCHANGED call

\* the same step, the promise's outcome kept in call
ProximityResolved(position) ==
  /\ ProximityResultStep(position)
  /\ call' = ProximityCall(position, TRUE,
                requireInlineProximity(Cur, geolocation, position, TRUE))

\* blur of the delivery address field while in delivery: geocode it
AddressBlur ==
  /\ orderType = "delivery"
  /\ geoPending < MaxPending
  /\ geoPending' = geoPending + 1
  /\ UNCHANGED last
  /\ UNCHANGED checkoutVars
  /\ UNCHANGED << call, geolocation, orderingClosed >>
  /\ UNCHANGED << storage, storageEvent, priceOverrides, cart, orderType, proxPending,
                  deliveryFee, currentTipPercent, currentTipAmount, inlinePreviewMode,
                  tipSectionHidden, paymentRequest, shown, rows, portionSel, menuPrice >>

\* a geocoding / geolocation request completes with coordinates
GeoResult(distanceMilli) ==
  /\ geoPending > 0
  /\ geoPending' = geoPending - 1
  /\ Assign(showMapAndDistance(Cur, distanceMilli))
  /\ last' = "handler"
  /\ UNCHANGED checkoutVars
  /\ UNCHANGED << call, geolocation, orderingClosed >>
  /\ UNCHANGED << storage, storageEvent, proxPending >>

\* ... or without a usable result
GeoFail ==
  /\ geoPending > 0
  /\ geoPending' = geoPending - 1
  /\ UNCHANGED last
  /\ UNCHANGED checkoutVars
  /\ UNCHANGED << call, geolocation, orderingClosed >>
  /\ UNCHANGED << storage, storageEvent, priceOverrides, cart, orderType, proxPending,
                  deliveryFee, currentTipPercent, currentTipAmount, inlinePreviewMode,
                  tipSectionHidden, paymentRequest, shown, rows, portionSel, menuPrice >>

TipButtonClick(pctAttr) ==
  /\ ~tipSectionHidden
  /\ Assign(tipButtonClick(Cur, pctAttr))
  /\ last' = "handler"
  /\ UNCHANGED checkoutVars
  /\ UNCHANGED << call, geolocation, orderingClosed >>
  /\ UNCHANGED << storage, storageEvent, proxPending, geoPending >>

CustomTipInput(val) ==
  /\ ~tipSectionHidden
  /\ currentTipPercent = CustomMode
  /\ Assign(customTipInput(Cur, val))
  /\ last' = "handler"
  /\ UNCHANGED checkoutVars
  /\ UNCHANGED << call, geolocation, orderingClosed >>
  /\ UNCHANGED << storage, storageEvent, proxPending, geoPending >>

\* initStripe completes: the payment request is created with a zero total
InitStripeDone ==
  /\ ~paymentRequest.present
  /\ paymentRequest' = [total |-> 0, present |-> TRUE]
  /\ UNCHANGED last
  /\ UNCHANGED checkoutVars
  /\ UNCHANGED << call, geolocation, orderingClosed >>
  /\ UNCHANGED << storage, storageEvent, priceOverrides, cart, orderType, proxPending,
                  geoPending, deliveryFee, currentTipPercent, currentTipAmount,
                  inlinePreviewMode, tipSectionHidden, shown, rows, portionSel, menuPrice >>

\* click on the Checkout button of the cart: the backend is notified and the
\* overlay opens
CheckoutButtonClick ==
  /\ ensureOrderingOpenOrWarn
  /\ Len(cart) # 0
  /\ ~inlinePreviewMode
  /\ ~checkoutOpen
  /\ payload' = previewOrder(Cur)
  /\ checkoutOpen' = TRUE
  /\ UNCHANGED << call, geolocation, orderingClosed, storage, storageEvent, storeVarsOfPage, last, currentClientSecret,
                  confirmPending, inlineSubmitPending >>

\* click on the overlay's backdrop, or Continue shopping on a narrow screen
CheckoutDismiss ==
  /\ checkoutOpen
  /\ checkoutOpen' = FALSE
  /\ UNCHANGED << call, geolocation, orderingClosed, storage, storageEvent, storeVarsOfPage, last, currentClientSecret,
                  confirmPending, inlineSubmitPending, payload >>

\* submit of the checkout form with name, phone and address filled in, pickup
\* or delivery: createPaymentIntent, then stripe.confirmCardPayment is awaited.
\* created tells whether the backend answered with a client secret.
CheckoutSubmitCard(created) ==
  /\ ensureOrderingOpenOrWarn
  /\ checkoutOpen
  /\ orderType # "inline"
  /\ confirmPending < MaxPending
  /\ IF currentClientSecret.present
       THEN /\ created
            /\ UNCHANGED << payload, currentClientSecret >>
       ELSE /\ payload' = createPaymentIntentPayload(Cur)
            /\ currentClientSecret' = IF created
                                        THEN SecretFor(createPaymentIntentPayload(Cur).total)
                                        ELSE NoSecret
  /\ confirmPending' = IF created THEN confirmPending + 1 ELSE confirmPending
  /\ UNCHANGED << call, geolocation, orderingClosed, storage, storageEvent, storeVarsOfPage, last, checkoutOpen,
                  inlineSubmitPending >>

\* the same form in the inline channel: submitInlineOrder up to its await
CheckoutSubmitInline ==
  /\ ensureOrderingOpenOrWarn
  /\ geolocation
  /\ checkoutOpen
  /\ orderType = "inline"
  /\ Len(cart) # 0
  /\ ~inlinePreviewMode
  /\ inlineSubmitPending < MaxPending
  /\ inlineSubmitPending' = inlineSubmitPending + 1
  /\ UNCHANGED << call, geolocation, orderingClosed, storage, storageEvent, storeVarsOfPage, last, checkoutOpen,
                  currentClientSecret, confirmPending, payload >>

\* requireInlineProximity() resolves in submitInlineOrder; near the restaurant
\* the order is posted, and accepted tells the backend's answer
InlineSubmitResultStep(position, accepted) ==
  LET r == requireInlineProximity(Cur, geolocation, position, FALSE)
  IN  /\ inlineSubmitPending > 0
      /\ inlineSubmitPending' = inlineSubmitPending - 1
      /\ IF r.resolved
           THEN /\ payload' = inlineOrderPayload(r.state)
                /\ IF accepted
                     THEN Assign(inlineOrderAccepted(r.state).state) /\ last' = "thanked"
                     ELSE Assign(r.state) /\ UNCHANGED last
           ELSE /\ ~accepted
                /\ Assign(r.state)
                /\ UNCHANGED << payload, last >>
      /\ UNCHANGED << geolocation, orderingClosed, storage, storageEvent, proxPending, geoPending,
                      checkoutOpen, currentClientSecret, confirmPending >>

InlineSubmitResult(position, accepted) ==
  /\ InlineSubmitResultStep(position, accepted)
  /\ UNCHANGED call

\* the same step, the promise's outcome kept in call
InlineSubmitResolved(position, accepted) ==
  /\ InlineSubmitResultStep(position, accepted)
  /\ call' = ProximityCall(position, FALSE,
                requireInlineProximity(Cur, geolocation, position, FALSE))

\* submitInlineOrder in a browser without navigator.geolocation: the promise
\* resolves false at once and the handler returns
CheckoutSubmitInlineUnsupported ==
  /\ ensureOrderingOpenOrWarn
  /\ ~geolocation
  /\ checkoutOpen
  /\ orderType = "inline"
  /\ Len(cart) # 0
  /\ ~inlinePreviewMode
  /\ Assign(requireInlineProximity(Cur, geolocation, NoFix, FALSE).state)
  /\ call' = ProximityCall(NoFix, FALSE,
                requireInlineProximity(Cur, geolocation, NoFix, FALSE))
  /\ UNCHANGED << geolocation, orderingClosed, storage, storageEvent, proxPending, geoPending, last,
                  checkoutVars >>

\* stripe.confirmCardPayment resolves; on success handleOrderSuccess runs
ConfirmResult(succeeded) ==
  /\ confirmPending > 0
  /\ confirmPending' = confirmPending - 1
  /\ IF succeeded
       THEN /\ payload' = paidOrder(Cur)
            /\ Assign(handleOrderSuccess(Cur))
            /\ checkoutOpen' = FALSE
            /\ currentClientSecret' = NoSecret
            /\ last' = "handler"
       ELSE /\ Assign(Cur)
            /\ UNCHANGED << payload, checkoutOpen, currentClientSecret, last >>
  /\ UNCHANGED << call, geolocation, orderingClosed, storage, storageEvent, proxPending, geoPending, inlineSubmitPending >>

\* window 'storage' event for ORDERING_STATUS_STORAGE_KEY: applyOrderingStatus
\* takes the status another page saved.  The disabled flags it sets repeat the
\* guards of the click handlers and are not kept.
OrderingStatusEvent(closed) ==
  /\ orderingClosed # closed
  /\ orderingClosed' = closed
  /\ UNCHANGED << call, geolocation, storage, storageEvent, storeVarsOfPage, last,
                  checkoutVars >>

\* the wallet's 'paymentmethod' event, the sheet confirmed for a positive
\* total with the overlay open: createPaymentIntent, then
\* stripe.confirmCardPayment is awaited
WalletPaymentMethod(created) ==
  /\ paymentRequest.present
  /\ paymentRequest.total > 0
  /\ checkoutOpen
  /\ confirmPending < MaxPending
  /\ IF currentClientSecret.present
       THEN /\ created
            /\ UNCHANGED << payload, currentClientSecret >>
       ELSE /\ payload' = createPaymentIntentPayload(Cur)
            /\ currentClientSecret' = IF created
                                        THEN SecretFor(createPaymentIntentPayload(Cur).total)
                                        ELSE NoSecret
  /\ confirmPending' = IF created THEN confirmPending + 1 ELSE confirmPending
  /\ UNCHANGED << call, geolocation, orderingClosed, storage, storageEvent,
                  storeVarsOfPage, last, checkoutOpen, inlineSubmitPending >>

\* click on Express Checkout with name, phone and address filled in; the
\* button is disabled while preview mode is set.  startStripeCheckout posts
\* the session payload; the redirect that follows is not modelled
ExpressCheckoutClick ==
  /\ ensureOrderingOpenOrWarn
  /\ ~inlinePreviewMode
  /\ Len(cart) # 0
  /\ payload' = startStripeCheckout(Cur)
  /\ UNCHANGED << call, geolocation, orderingClosed, storage, storageEvent,
                  storeVarsOfPage, last, checkoutOpen, currentClientSecret,
                  confirmPending, inlineSubmitPending >>

\* ------------------------------------------------------------------------
\* Direct calls of the helpers
\* ------------------------------------------------------------------------
Called(fn, args, result) ==
  /\ call' = [fn |-> fn, args |-> args, result |-> result]
  /\ UNCHANGED << storage, storageEvent, storeVarsOfPage, last, checkoutVars, geolocation,
               orderingClosed >>

CallLoadPriceOverrides(raw) ==
  Called("loadPriceOverrides", << raw >>, loadPriceOverridesOutcome(raw))

\* getEffectivePrices(e[1], e[2], overrides), the overrides holding val for e
CallGetEffectivePrices(e, val) ==
  Called("getEffectivePrices", << e, val >>,
         getEffectivePrices(e[1], e[2], WithOverride(EmptyOverrides, e, val)))

CallComputeInlineBasePrice(basePrice, itemId) ==
  Called("computeInlineBasePrice", << basePrice, itemId >>,
         [menu |-> computeInlineBasePrice(basePrice, itemId),
          fallback |-> fallbackComputeInlineBasePrice(basePrice, itemId)])

\* addToCart(item, portionOption) on an empty cart in channel ot, the overrides
\* holding val for the entry; resolved is what getEffectivePrices answered
CallAddToCart(item, portionOption, ot, val) ==
  Called("addToCart", << item, portionOption, ot, val >>,
         [resolved |-> getEffectivePrices(item.id, portionOption.key,
                         WithOverride(EmptyOverrides, << item.id, portionOption.key >>, val)),
          line |-> addToCart([Cur EXCEPT !.cart = << >>, !.orderType = ot,
                                         !.priceOverrides =
                                           WithOverride(EmptyOverrides,
                                                        << item.id, portionOption.key >>, val)],
                             item, portionOption).cart[1]])

\* computeDeliveryFee at two distances
CallComputeDeliveryFee(d1, d2) ==
  Called("computeDeliveryFee", << d1, d2 >>,
         << computeDeliveryFee(d1), computeDeliveryFee(d2) >>)

\* ------------------------------------------------------------------------
\* Grill Points (part_001).  The state is [grillPoints, grillPointsLifetime,
\* grillPointsSyncInFlight, local, posted, requests]: local the two
\* localStorage keys, posted the body of the last POST /grill-points,
\* requests the POSTs not settled yet.  call.result keeps it from one call
\* to the next.
\* ------------------------------------------------------------------------
Tally(points, lifetime) == [points |-> points, lifetime |-> lifetime]
NoPost == Tally(0 - 1, 0 - 1)

\* let grillPoints = 0, grillPointsLifetime = 0, grillPointsSyncInFlight = null
GrillStart ==
  [grillPoints |-> 0, grillPointsLifetime |-> 0, grillPointsSyncInFlight |-> FALSE,
   local |-> Tally(0, 0), posted |-> NoPost, requests |-> 0]

syncGrillPointsToBackend(g) ==
  IF g.grillPointsSyncInFlight
    THEN g
    ELSE [g EXCEPT !.posted = Tally(g.grillPoints, g.grillPointsLifetime),
                   !.requests = @ + 1,
                   !.grillPointsSyncInFlight = TRUE]

saveGrillPoints(g) ==
  syncGrillPointsToBackend([g EXCEPT !.local = Tally(g.grillPoints, g.grillPointsLifetime)])

awardGrillPoints(g, points) ==
  IF points <= 0
    THEN g
    ELSE saveGrillPoints([g EXCEPT !.grillPoints = @ + points,
                                   !.grillPointsLifetime = @ + points])

\* the points awardGrillPointsForItem grants for one added item
pointsForItem(item) ==
  10 + (IF item.price >= P(20, 0) THEN 10 ELSE 0)
     + (IF item.id \in {"snapper", "salmon", "tilapia", "beef_ribs"} THEN 10 ELSE 0)

awardGrillPointsForItem(g, item) == awardGrillPoints(g, pointsForItem(item))

\* the POST settles: .catch swallows a failure, .finally clears the promise
grillPointsSyncSettled(g) ==
  [g EXCEPT !.requests = @ - 1, !.grillPointsSyncInFlight = FALSE]

GrillCalls == {"awardGrillPoints", "awardGrillPointsForItem", "grillPointsSyncSettled"}
Grill == IF call.fn \in GrillCalls THEN call.result ELSE GrillStart

AwardItems == {"chicken_wings", "beef_ribs", "snapper"}   \* items added to the cart
AwardPoints == {0, 10}                                    \* points awarded directly

\* addToCart's awardGrillPointsForItem(item)
CallAwardGrillPointsForItem(id) ==
  /\ Grill.grillPoints + pointsForItem(ItemOf(id)) <= MaxPoints
  /\ Called("awardGrillPointsForItem", << id >>, awardGrillPointsForItem(Grill, ItemOf(id)))

CallAwardGrillPoints(points) ==
  /\ Grill.grillPoints + points <= MaxPoints
  /\ Called("awardGrillPoints", << points >>, awardGrillPoints(Grill, points))

\* the fetch of syncGrillPointsToBackend settles, fulfilled or rejected
GrillPointsSyncSettled(ok) ==
  /\ Grill.requests > 0
  /\ Called("grillPointsSyncSettled", << ok >>, grillPointsSyncSettled(Grill))

\* ------------------------------------------------------------------------
\* The Holy Hands storefront (src/script.js).  The state is [cart,
\* checkoutDisabled, subtotalText, countText, rowTexts, cartOpen]: cart the
\* entries [id, price, qty], the rest what updateCartUI and openCart leave in
\* the page, Unset before the first update.  call.result keeps it from one
\* call to the next.
\* ------------------------------------------------------------------------
menuItems ==
  << [id |-> "mild-pepper-chicken",  price |-> P(13, 0)],
     [id |-> "plantain-side",        price |-> P(6, 0)],
     [id |-> "jumbo-shrimp",         price |-> P(20, 0)],
     [id |-> "attieke-side",         price |-> P(6, 0)],
     [id |-> "potato-salad-chicken", price |-> P(13, 0)],
     [id |-> "potato-salad-small",   price |-> P(7, 0)],
     [id |-> "plantain-beef",        price |-> P(13, 0)],
     [id |-> "extra-jollof",         price |-> P(6, 0)] >>

Unset == 0 - 1

\* the page after init(); disabled is the checkout button's state in the markup
ShopStart(disabled) ==
  [cart |-> << >>, checkoutDisabled |-> disabled, subtotalText |-> Unset,
   countText |-> Unset, rowTexts |-> << >>, cartOpen |-> FALSE]

RECURSIVE SumQty(_)
SumQty(c) == IF c = << >> THEN 0 ELSE c[1].qty + SumQty(Tail(c))

RECURSIVE Subtotal(_)
Subtotal(c) == IF c = << >> THEN 0 ELSE c[1].price * c[1].qty + Subtotal(Tail(c))

updateCartUI(h) ==
  [h EXCEPT !.rowTexts = [i \in 1..Len(h.cart) |->
                            [amount |-> currency(h.cart[i].price * h.cart[i].qty),
                             qty |-> h.cart[i].qty]],
            !.subtotalText = currency(Subtotal(h.cart)),
            !.countText = SumQty(h.cart),
            !.checkoutDisabled = (Len(h.cart) = 0)]

openCart(h) == [h EXCEPT !.cartOpen = TRUE]

\* cart.find((c) => c.id === itemId): index of the first such entry, 0 if none
FindEntry(c, itemId) ==
  IF \E i \in 1..Len(c) : c[i].id = itemId
    THEN CHOOSE i \in 1..Len(c) : c[i].id = itemId /\ \A j \in 1..(i - 1) : c[j].id # itemId
    ELSE 0

\* addToCart of src/script.js
shopAddToCart(h, itemId) ==
  LET existing == FindEntry(h.cart, itemId)
      onMenu == \E i \in 1..Len(menuItems) : menuItems[i].id = itemId
  IN  IF existing # 0
        THEN openCart(updateCartUI([h EXCEPT !.cart[existing].qty = @ + 1]))
        ELSE IF ~onMenu
          THEN h
          ELSE openCart(updateCartUI(
                 [h EXCEPT !.cart = Append(@, [id |-> itemId,
                                               price |-> FindItem(menuItems, itemId).price,
                                               qty |-> 1])]))

\* Mutant: an entry brought to qty 0 or below stays in the cart
changeQty_keepsEmptied(h, itemId, delta) ==
  LET target == FindEntry(h.cart, itemId)
  IN  IF target = 0
        THEN h
        ELSE updateCartUI([h EXCEPT !.cart[target].qty = @ + delta])

changeQty(h, itemId, delta) ==
  LET target == FindEntry(h.cart, itemId)
  IN  IF target = 0
        THEN h
        ELSE IF h.cart[target].qty + delta <= 0
          THEN updateCartUI([h EXCEPT !.cart = RemoveAt(@, target)])
          ELSE updateCartUI([h EXCEPT !.cart[target].qty = @ + delta])

ShopCalls == {"init", "shopAddToCart", "changeQty"}
Shop == call.result
ShopIds == {"plantain-side", "jumbo-shrimp", "lemonade"}   \* ids passed; lemonade is not on the menu
ShopDeltas == {0 - 2, 0 - 1, 1}                            \* deltas passed to changeQty

\* DOMContentLoaded: init()
ShopLoad(disabled) ==
  /\ call.fn \notin ShopCalls
  /\ Called("init", << disabled >>, ShopStart(disabled))

CallShopAddToCart(itemId) ==
  /\ call.fn \in ShopCalls
  /\ \A i \in 1..Len(Shop.cart) : Shop.cart[i].id = itemId => Shop.cart[i].qty < MaxQty
  /\ Called("shopAddToCart", << itemId >>, shopAddToCart(Shop, itemId))

CallChangeQty(itemId, delta) ==
  /\ call.fn \in ShopCalls
  /\ \A i \in 1..Len(Shop.cart) : Shop.cart[i].id = itemId => Shop.cart[i].qty + delta <= MaxQty
  /\ Called("changeQty", << itemId, delta >>, changeQty(Shop, itemId, delta))

\* The storefront without the override store: cart, channel, delivery fee,
\* tips and the wallet mirror.  priceOverrides stays as loaded at start.
Next ==
  \/ \E id \in StoreItems : MenuAddClick(id)
  \/ \E i \in 1..Len(cart), delta \in {0 - 1, 1} : QuantityClick(i, delta)
  \/ \E v \in Channels : RadioChange(v)
  \/ RadioChangeInline
  \/ \E position \in ProxPositions : ProximityResult(position)
  \/ AddressBlur
  \/ \E d \in Distances : GeoResult(d)
  \/ GeoFail
  \/ \E p \in TipPercents \cup {CustomMode} : TipButtonClick(p)
  \/ \E val \in CustomTipEntries : CustomTipInput(val)
  \/ InitStripeDone

Spec == Init /\ [][Next]_vars

\* The same before initStripe has created the payment request
NextTotals ==
  \/ \E id \in StoreItems : MenuAddClick(id)
  \/ \E i \in 1..Len(cart), delta \in {0 - 1, 1} : QuantityClick(i, delta)
  \/ \E v \in Channels : RadioChange(v)
  \/ RadioChangeInline
  \/ \E position \in ProxPositions : ProximityResult(position)
  \/ AddressBlur
  \/ \E d \in Distances : GeoResult(d)
  \/ GeoFail
  \/ \E p \in TipPercents \cup {CustomMode} : TipButtonClick(p)
  \/ \E val \in CustomTipEntries : CustomTipInput(val)

SpecTotals == Init /\ [][NextTotals]_vars

\* The storefront with the override store; the tip controls, the geocoding
\* results and the wallet mirror, which write neither the cart lines nor the
\* overrides, are left out.
NextPricing ==
  \/ \E e \in StoreTargets, val \in StoreOverrideValues, ok \in BOOLEAN :
       AdminSetOverride(e, val, ok)
  \/ \E e \in StoreTargets, ok \in BOOLEAN : AdminClearOverride(e, ok)
  \/ StorageEvent
  \/ \E id \in StoreItems : MenuAddClick(id)
  \/ \E i \in 1..Len(cart), delta \in {0 - 1, 1} : QuantityClick(i, delta)
  \/ \E v \in Channels : RadioChange(v)
  \/ RadioChangeInline
  \/ \E position \in ProxPositions : ProximityResult(position)
  \/ GeoFail

SpecPricing == Init /\ [][NextPricing]_vars

\* The menu and the cart: cards, portion selects, quantities and the channel
NextCart ==
  \/ \E id \in StoreItems : MenuAddClick(id)
  \/ \E id \in StoreItems \cap PortionedIds, index \in SelIndices :
       PortionSelectChange(id, index)
  \/ \E i \in 1..Len(cart), delta \in {0 - 1, 1} : QuantityClick(i, delta)
  \/ \E v \in Channels : RadioChange(v)
  \/ GeoFail

SpecCart == Init /\ [][NextCart]_vars

\* Checkout: one card, the channel as saved or switched to pickup / delivery
\* (the geocoding request giving no result), a percent tip, the checkout
\* overlay and the three order submissions
NextCheckout ==
  \/ \E id \in CheckoutItems : MenuAddClick(id)
  \/ \E i \in 1..Len(cart), delta \in {0 - 1, 1} : QuantityClick(i, delta)
  \/ \E v \in Channels : RadioChange(v)
  \/ GeoFail
  \/ \E p \in TipPercents : TipButtonClick(p)
  \/ CheckoutButtonClick
  \/ CheckoutDismiss
  \/ \E created \in BOOLEAN : CheckoutSubmitCard(created)
  \/ CheckoutSubmitInline
  \/ \E position \in ProxPositions, accepted \in BOOLEAN :
       InlineSubmitResult(position, accepted)
  \/ \E succeeded \in BOOLEAN : ConfirmResult(succeeded)

SpecCheckout == Init /\ [][NextCheckout]_vars

\* One card with its portion select, the quantities and every channel change
NextScenario ==
  \/ \E id \in CheckoutItems : MenuAddClick(id)
  \/ \E id \in CheckoutItems, index \in SelIndices : PortionSelectChange(id, index)
  \/ \E i \in 1..Len(cart), delta \in {0 - 1, 1} : QuantityClick(i, delta)
  \/ \E v \in Channels : RadioChange(v)
  \/ RadioChangeInline
  \/ \E position \in ProxPositions : ProximityResult(position)
  \/ GeoFail

SpecScenario == Init /\ [][NextScenario]_vars

\* The delivery fee: the helper called directly, and the delivery channel with
\* its geocoding results at several distances
NextDelivery ==
  \/ \E id \in CheckoutItems : MenuAddClick(id)
  \/ \E v \in Channels : RadioChange(v)
  \/ AddressBlur
  \/ \E d \in DeliveryDistances : GeoResult(d)
  \/ GeoFail
  \/ \E d1 \in DeliveryDistances, d2 \in DeliveryDistances : CallComputeDeliveryFee(d1, d2)

SpecDelivery == Init /\ [][NextDelivery]_vars

\* The in-line gate: the radio and the in-line submission, in a browser with
\* or without navigator.geolocation
NextProximity ==
  \/ \E id \in CheckoutItems : MenuAddClick(id)
  \/ \E v \in Channels : RadioChange(v)
  \/ RadioChangeInline
  \/ RadioChangeInlineUnsupported
  \/ \E position \in ProxPositions : ProximityResolved(position)
  \/ GeoFail
  \/ CheckoutButtonClick
  \/ CheckoutDismiss
  \/ CheckoutSubmitInline
  \/ CheckoutSubmitInlineUnsupported
  \/ \E position \in ProxPositions, accepted \in BOOLEAN :
       InlineSubmitResolved(position, accepted)

InitProximity == InitIn(BOOLEAN) /\ orderingClosed = FALSE

SpecProximity == InitProximity /\ [][NextProximity]_vars

\* Ordering open and closed: one card, the channel as saved or switched to
\* pickup or, through the in-line gate, to in-store, the checkout overlay and
\* the order paths
NextOrdering ==
  \/ \E id \in CheckoutItems : MenuAddClick(id)
  \/ \E v \in OrderingChannels : RadioChange(v)
  \/ RadioChangeInline
  \/ \E position \in OrderingPositions : ProximityResolved(position)
  \/ GeoFail
  \/ \E closed \in BOOLEAN : OrderingStatusEvent(closed)
  \/ InitStripeDone
  \/ CheckoutButtonClick
  \/ CheckoutDismiss
  \/ \E created \in BOOLEAN : CheckoutSubmitCard(created)
  \/ \E created \in BOOLEAN : WalletPaymentMethod(created)
  \/ ExpressCheckoutClick
  \/ CheckoutSubmitInline
  \/ \E position \in OrderingPositions, accepted \in BOOLEAN :
       InlineSubmitResolved(position, accepted)
  \/ \E succeeded \in BOOLEAN : ConfirmResult(succeeded)

\* the page loads with ordering open or closed
InitOrdering == InitIn({TRUE}) /\ orderingClosed \in BOOLEAN

SpecOrdering == InitOrdering /\ [][NextOrdering]_vars

\* Grill Points: awards and the settling of the sync request
NextGrill ==
  \/ \E id \in AwardItems : CallAwardGrillPointsForItem(id)
  \/ \E points \in AwardPoints : CallAwardGrillPoints(points)
  \/ \E ok \in BOOLEAN : GrillPointsSyncSettled(ok)

SpecGrill == Init /\ [][NextGrill]_vars

\* The Holy Hands storefront: the page loads, then addToCart and changeQty
NextShop ==
  \/ \E disabled \in BOOLEAN : ShopLoad(disabled)
  \/ \E itemId \in ShopIds : CallShopAddToCart(itemId)
  \/ \E itemId \in ShopIds, delta \in ShopDeltas : CallChangeQty(itemId, delta)

SpecShop == Init /\ [][NextShop]_vars

\* The override store and resolver of part_000 alone, over the whole catalog
NextResolver ==
  \/ \E e \in ResolverTargets, val \in ResolverOverrideValues, ok \in BOOLEAN :
       AdminSetOverride(e, val, ok)
  \/ \E e \in ResolverTargets, ok \in BOOLEAN : AdminClearOverride(e, ok)

InitResolver == Init /\ orderType = "pickup"

SpecResolver == InitResolver /\ [][NextResolver]_vars

\* The helpers called directly, one call at a time
NextFunctions ==
  \/ \E basePrice \in CallPrices, itemId \in ItemIds :
       CallComputeInlineBasePrice(basePrice, itemId)
  \/ \E e \in CallTargets, val \in CallOverrideValues : CallGetEffectivePrices(e, val)
  \/ \E raw \in CallRawDocs : CallLoadPriceOverrides(raw)
  \/ \E a \in CallAdds, ot \in Channels, val \in {Undef, Num(P(12, 30))} :
       CallAddToCart(a[1], a[2], ot, val)

SpecFunctions == InitResolver /\ [][NextFunctions]_vars

\* ------------------------------------------------------------------------
\* Properties
\* ------------------------------------------------------------------------
BaselineEntry(e) ==
  IF e[2] = NoKey THEN BASELINE_PRICING.items[e[1]] ELSE BASELINE_PRICING.portions[e[1]][e[2]]

\* the resolver's answer for entry e when the stored document is raw
Eff(raw, e) == getEffectivePrices(e[1], e[2], loadPriceOverrides(raw))

RECURSIVE SumTo(_, _)
SumTo(c, n) == IF n = 0 THEN 0 ELSE SumTo(c, n - 1) + c[n].price * c[n].quantity

ResolverPrice(ci, ot, overrides) ==
  LET r == getEffectivePrices(ci.id, ci.key, overrides)
  IN  IF ot = "inline" THEN r.inline ELSE r.online

LinesAtResolverPrice ==
  \A i \in 1..Len(cart) : cart[i].price = ResolverPrice(cart[i], orderType, priceOverrides)

UniqueLines(c) ==
  \A i, j \in 1..Len(c) : (c[i].id = c[j].id /\ c[i].key = c[j].key) => i = j

SelectedKey(id) ==
  IF id \in PortionedIds THEN portionOptions[id][portionSel[id]].key ELSE NoKey

\* C1: for every catalog entry and every stored overrides document the
\* resolver returns online - inline = the entry's baseline markup, and
\* markup = the baseline markup.
C1_MarkupInvariance ==
  \A e \in Entries :
    LET r == Eff(storage, e)
    IN  /\ r.ok
        /\ r.online - r.inline = BaselineEntry(e).onlinePrice - BaselineEntry(e).inlinePrice
        /\ r.markup = BaselineEntry(e).onlinePrice - BaselineEntry(e).inlinePrice

C1_Witness ==
  /\ Cardinality(Overridden(loadPriceOverrides(storage))) = 2
  /\ Eff(storage, <<"cassava_leaf", NoKey>>).inline = P(10, 0)
  /\ Eff(storage, <<"cassava_leaf", NoKey>>).online = P(10, 50)
  /\ Eff(storage, <<"chicken_wings", "3_wings">>).inline = P(12, 30)

\* C2: saving an inline override val for entry e makes the resolver's inline
\* price of e exactly val and leaves its answer for every other entry (other
\* items, and every portion entry, those of the same item included) unchanged.
C2_OverridePrecedence ==
  [][ \A e \in ResolverTargets, val \in ResolverOverrideValues :
        AdminSetOverride(e, val, TRUE) =>
          /\ Eff(storage', e).inline = val.v
          /\ \A f \in Entries \ {e} : Eff(storage', f) = Eff(storage, f) ]_vars

C2_Witness ==
  /\ Overridden(loadPriceOverrides(storage)) = { <<"chicken_wings", NoKey>> }
  /\ Eff(storage, <<"chicken_wings", NoKey>>).inline = P(12, 30)
  /\ \A k \in PortionKeys("chicken_wings") :
       Eff(storage, <<"chicken_wings", k>>).inline = BaselineEntry(<<"chicken_wings", k>>).inlinePrice

\* C3 (as claimed): computeTotals returns fees = 0 for inline and fees = 10% of
\* the subtotal for pickup and delivery.
C3_FeesTenPercent ==
  LET t == computeTotals(Cur)
  IN  t.fees = IF orderType = "inline" THEN 0 ELSE t.subtotal \div 10

\* C4: with the channel inline, computeTotals returns fees = 0, deliveryFee = 0
\* and tip = 0 whatever the cached delivery fee and the current tip amount.
C4_InlineSuppression ==
  orderType = "inline" =>
    LET t == computeTotals(Cur)
    IN  t.fees = 0 /\ t.deliveryFee = 0 /\ t.tip = 0

C4_Witness ==
  /\ orderType = "inline"
  /\ Len(cart) > 0
  /\ deliveryFee > 0
  /\ currentTipAmount > 0

\* C5: in delivery computeTotals returns the cached delivery fee and the
\* current tip amount; in pickup it returns deliveryFee = 0 and tip = 0, also
\* after a late geocoding response made the cached fee nonzero again.
C5_DeliveryOnly ==
  LET t == computeTotals(Cur)
  IN  /\ orderType = "delivery" => (t.deliveryFee = deliveryFee /\ t.tip = currentTipAmount)
      /\ orderType = "pickup" => (t.deliveryFee = 0 /\ t.tip = 0)

C5_Witness ==
  /\ orderType = "pickup"
  /\ last = "handler"
  /\ geoPending = 0
  /\ deliveryFee = computeDeliveryFee(2500)
  /\ Len(cart) > 0

\* C6: the breakdown satisfies subtotal = sum of unit price x quantity over the
\* cart lines and grand = subtotal + fees + deliveryFee + tip.
C6_GrandIdentity ==
  LET t == computeTotals(Cur)
  IN  /\ t.subtotal = SumTo(cart, Len(cart))
      /\ t.grand = SumTo(cart, Len(cart)) + t.fees + t.deliveryFee + t.tip

C6_Witness ==
  /\ orderType = "delivery"
  /\ Len(cart) = 2
  /\ \E i \in 1..Len(cart) : cart[i].quantity = 2
  /\ deliveryFee > 0
  /\ currentTipAmount > 0
  /\ computeTotals(Cur).grand > SumTo(cart, Len(cart)) + deliveryFee

\* C7: the cart holds at most one line per (item id, portion key); adding an
\* entry that has a line increments that line's quantity by 1 and adds no line;
\* adding an entry that has none (same item, other portion key included)
\* appends a line of quantity 1.
AddPost(id) ==
  LET k == SelectedKey(id)
      L == { i \in 1..Len(cart) : cart[i].id = id /\ cart[i].key = k }
  IN  /\ Len(cart') = Len(cart) + (IF L = {} THEN 1 ELSE 0)
      /\ \A i \in 1..Len(cart) :
           /\ cart'[i].id = cart[i].id
           /\ cart'[i].key = cart[i].key
           /\ cart'[i].quantity = cart[i].quantity + (IF i \in L THEN 1 ELSE 0)
      /\ L = {} =>
           LET n == cart'[Len(cart')]
           IN  n.id = id /\ n.key = k /\ n.quantity = 1

C7_CartLineIdentity ==
  /\ [] UniqueLines(cart)
  /\ [][ \A id \in StoreItems : MenuAddClick(id) => AddPost(id) ]_vars

C7_Witness ==
  /\ last = "handler"
  /\ Len(cart) = 2
  /\ cart[1].id = "chicken_wings" /\ cart[2].id = "chicken_wings"
  /\ cart[1].key = "2_wings" /\ cart[2].key = "3_wings"
  /\ cart[2].quantity = 2

\* C8: once updateOrderType has completed, every cart line's unit price is the
\* resolver's inline price for the line (by its portion key) if the channel is
\* inline, and the resolver's online price otherwise, under the current overrides.
C8_RepricedOnChannelChange ==
  last = "updateOrderType" => LinesAtResolverPrice

C8_Witness ==
  /\ last = "updateOrderType"
  /\ orderType = "inline"
  /\ Overridden(priceOverrides) = { <<"chicken_wings", "2_wings">> }
  /\ Len(cart) = 2
  /\ \E i \in 1..2 : cart[i].key = "2_wings" /\ cart[i].price = P(12, 30)
  /\ \E i \in 1..2 : cart[i].id = "cassava_leaf" /\ cart[i].price = P(21, 0)

\* C9 (as claimed): once the storage handler for the override key has
\* completed, the cart lines' unit prices, the menu prices, the per-line prices
\* of the cart panel and the displayed totals are those of the new overrides.
C9_StorageRefreshesAllPrices ==
  last = "storage" =>
    /\ LinesAtResolverPrice
    /\ \A id \in MenuCards :
         menuPrice[id] = formatCurrency(CardPrice(id, portionSel, orderType, priceOverrides))
    /\ Len(rows) = Len(cart)
    /\ \A i \in 1..Len(cart) : rows[i] = formatCurrency(cart[i].price * cart[i].quantity)
    /\ shown.subtotal = formatCurrency(computeTotals(Cur).subtotal)
    /\ shown.total = formatCurrency(computeTotals(Cur).grand)

\* C10 (as claimed): after every completed handler that changes the cart, the
\* channel, the tip, the cached delivery fee or the overrides, the displayed
\* grand total and the wallet mirror's total equal computeTotals().grand.
CompletedHandlers == { "handler", "updateOrderType", "storage" }

C10_DisplayedTotalsCurrent ==
  last \in CompletedHandlers =>
    /\ shown.total = formatCurrency(computeTotals(Cur).grand)
    /\ paymentRequest.present => paymentRequest.total = RoundCents(computeTotals(Cur).grand)

\* C11 (as claimed): whenever an order is submitted (payment-intent creation,
\* paid-order notification, in-store order post), the payload's total in cents
\* equals the grand total displayed at that moment, and every submitted line
\* carries the cart line's current quantity and unit price in cents.
C11_PayloadMatchesDisplay ==
  [][ (payload' # payload /\ payload'.kind # "checkout_initiated") =>
        /\ payload'.total = shown.total
        /\ Len(payload'.items) = Len(cart)
        /\ \A i \in 1..Len(cart) :
             /\ payload'.items[i].quantity = cart[i].quantity
             /\ payload'.items[i].unitPrice = RoundCents(cart[i].price) ]_vars

\* the cart of the worked example
ScenarioCart ==
  /\ priceOverrides = EmptyOverrides
  /\ Len(cart) = 1
  /\ cart[1].id = "chicken_wings" /\ cart[1].key = "3_wings" /\ cart[1].quantity = 2

\* C12 (as claimed): with no overrides, a cart of one chicken_wings 3_wings
\* line of quantity 2 has, in pickup, unit price 15, subtotal 30, fees 3.00,
\* deliveryFee 0, tip 0 and grand 33.00, and once the channel was switched to
\* inline unit price 13, subtotal 26, fees 0 and grand 26.00.
C12_Scenario ==
  /\ (ScenarioCart /\ orderType = "pickup" /\ last = "handler") =>
       /\ cart[1].price = P(15, 0)
       /\ computeTotals(Cur) = [deliveryFee |-> 0, subtotal |-> P(30, 0), fees |-> P(3, 0),
                                tip |-> 0, grand |-> P(33, 0)]
  /\ (ScenarioCart /\ orderType = "inline" /\ last = "updateOrderType") =>
       /\ cart[1].price = P(13, 0)
       /\ computeTotals(Cur) = [deliveryFee |-> 0, subtotal |-> P(26, 0), fees |-> 0,
                                tip |-> 0, grand |-> P(26, 0)]

\* C13: computeInlineBasePrice(price, id) returns 3.00 for the four
\* single-piece side ids whatever the price; for any other id it removes 50
\* cents when the price ends in .50, then turns a resulting 16.00 into 15.00,
\* and otherwise returns the price unchanged; the fallback copy of the
\* storefront script returns the same value as the menu-data copy.
C13_InlineBasePrice ==
  call.fn = "computeInlineBasePrice" =>
    LET price == call.args[1]
        id == call.args[2]
        halfRemoved == IF price % P(1, 0) = P(0, 50) THEN price - P(0, 50) ELSE price
        expected == IF id \in { "side_chicken_wing", "side_chicken_kabob",
                                "side_beef_kabob", "side_shrimp_kabob" }
                      THEN P(3, 0)
                      ELSE IF halfRemoved = P(16, 0) THEN P(15, 0) ELSE halfRemoved
    IN  /\ call.result.menu = expected
        /\ call.result.fallback = call.result.menu
        /\ (price = P(21, 50) /\ id = "cassava_leaf") => call.result.menu = P(21, 0)
        /\ (price = P(16, 0) /\ id = "beef_ribs") => call.result.menu = P(15, 0)
        /\ (price = P(3, 50) /\ id = "side_chicken_wing") => call.result.menu = P(3, 0)
        /\ (price = P(11, 0) /\ id = "chicken_wings") => call.result.menu = P(11, 0)

C13_Witness ==
  /\ call.fn = "computeInlineBasePrice"
  /\ call.args = << P(16, 50), "beef_ribs" >>
  /\ call.result.menu = P(15, 0)

\* value kinds that are absent, not a number or not finite
NotANumber == { "undefined", "null", "text", "prefixstr", "nan", "inf" }

\* C14 (as claimed): for every override value that is absent, non-numeric or
\* non-finite (null, a string that is not a number, NaN, Infinity),
\* getEffectivePrices ignores it and returns the entry's baseline inline price.
C14_InvalidOverrideIgnored ==
  (/\ call.fn = "getEffectivePrices"
   /\ call.args[1] \in Entries
   /\ call.args[2].t \in NotANumber) =>
     /\ call.result.ok
     /\ call.result.inline = BaselineEntry(call.args[1]).inlinePrice

\* C15: loadPriceOverrides never throws: for a missing, corrupt or unparsable
\* stored document (a stored JSON null included) it returns the empty
\* overrides, and for a document that lacks items or portions the missing map
\* is returned as an empty map, the other as stored.
C15_LoadNeverThrows ==
  call.fn = "loadPriceOverrides" =>
    LET raw == call.args[1]
        r == call.result
    IN  /\ ~r.thrown
        /\ raw.kind \in {"missing", "corrupt", "null"} => r.value = EmptyOverrides
        /\ raw.kind \in {"docNoItems", "docBare"} => r.value.items = EmptyMap
        /\ raw.kind \in {"docNoPortions", "docBare"} => r.value.portions = EmptyMap
        /\ raw.kind \in {"doc", "docNoPortions"} => r.value.items = raw.items
        /\ raw.kind \in {"doc", "docNoItems"} => r.value.portions = raw.portions

C15_Witness ==
  /\ call.fn = "loadPriceOverrides"
  /\ call.args[1].kind = "null"
  /\ call.result = [value |-> EmptyOverrides, thrown |-> FALSE]

\* C16 (as claimed): when the baseline holds no entry for the item id or for
\* the portion key, getEffectivePrices answers null whatever the overrides
\* hold for that key, and addToCart prices the line at the item's catalog price.
C16_NoBaselineCatalogPrice ==
  (/\ call.fn = "addToCart"
   /\ << call.args[1].id, call.args[2].key >> \notin Entries) =>
     /\ ~call.result.resolved.ok
     /\ call.result.line.price = call.args[1].price

\* the line cart.findIndex(ci => ci.id === cart[i].id) selects for row i
FoundLine(i) == CHOOSE j \in 1..i : cart[j].id = cart[i].id /\ \A k \in 1..(j - 1) : cart[k].id # cart[i].id

\* C17: after any sequence of addToCart and updateQuantity events every cart
\* line has quantity >= 1; a decrement that brings the line updateQuantity
\* finds to quantity 0 removes that line from the cart.
C17_QuantityAtLeastOne ==
  /\ [] (\A i \in 1..Len(cart) : cart[i].quantity >= 1)
  /\ [][ \A i \in 1..Len(cart) :
          (QuantityClick(i, 0 - 1) /\ cart[FoundLine(i)].quantity = 1) =>
            cart' = RemoveAt(cart, FoundLine(i)) ]_vars

\* the cart emptied by a decrement: no other handler of the cart
\* specification ends with an empty cart
C17_Witness ==
  /\ last = "handler"
  /\ cart = << >>
  /\ rows = << >>

\* C18 (as claimed): in the delivery channel with a non-empty cart, while a
\* percentage tip p is selected the tip amount is p x (subtotal + fees +
\* deliveryFee) of the current totals, right after the selection and after
\* every later change; a custom entry sets the tip to the entered amount, or
\* to 0 when the entry is not finite or not positive.
C18_TipFollowsTotals ==
  /\ [] ((orderType = "delivery" /\ cart # << >> /\ currentTipPercent.mode = "pct") =>
           currentTipAmount =
             ((computeTotals(Cur).subtotal + computeTotals(Cur).fees
                 + computeTotals(Cur).deliveryFee) * currentTipPercent.pct) \div 100)
  /\ [][ \A val \in CustomTipEntries :
          (CustomTipInput(val) /\ orderType = "delivery" /\ cart # << >>) =>
            /\ currentTipPercent' = CustomMode
            /\ currentTipAmount' = (IF val.t \in {"num", "numstr"} /\ val.v > 0 THEN val.v ELSE 0)
        ]_vars

PerMile(d) == d * (Cent \div 10)

\* C20: computeDeliveryFee(d) is 3.00 + 1.00 x d for every distance d >= 0,
\* never below 3.00 and non-decreasing in d; after showMapAndDistance the
\* cached delivery fee is computeDeliveryFee of the distance between the
\* restaurant and the customer.
C20_DeliveryFee ==
  /\ [] (call.fn = "computeDeliveryFee" =>
           /\ call.result[1] = P(3, 0) + PerMile(call.args[1])
           /\ call.result[2] = P(3, 0) + PerMile(call.args[2])
           /\ call.result[1] >= P(3, 0)
           /\ call.args[1] <= call.args[2] => call.result[1] <= call.result[2])
  /\ [][ \A d \in DeliveryDistances :
          GeoResult(d) => deliveryFee' = P(3, 0) + PerMile(d) ]_vars

C20_Witness ==
  /\ call.fn = "computeDeliveryFee"
  /\ call.args = << 1, 2500 >>
  /\ deliveryFee = P(10, 25)
  /\ shown.deliveryFee = 1025
  /\ orderType = "delivery"

\* C21 (as claimed): in every state between two event handlers, the pending
\* proximity check and geocoding request included, every cart line's unit
\* price is the effective price of the line for the checked channel and the
\* displayed breakdown is a fresh computation.
C21_NoStaleChannelPrices ==
  /\ LinesAtResolverPrice
  /\ shown.subtotal = formatCurrency(computeTotals(Cur).subtotal)
  /\ shown.total = formatCurrency(computeTotals(Cur).grand)

\* the cart after row i alone has had delta added to its quantity
OnlyLineChanged(c, i, delta) ==
  IF c[i].quantity + delta <= 0
    THEN RemoveAt(c, i)
    ELSE [c EXCEPT ![i].quantity = @ + delta]

\* C22 (as claimed): pressing increase or decrease on a cart row changes that
\* row's line (same item id and same portion key) and leaves every other line
\* unchanged, also when two lines of one item differ in their portion key.
C22_OnlyThatLine ==
  [][ \A i \in 1..Len(cart), delta \in {0 - 1, 1} :
        QuantityClick(i, delta) => cart' = OnlyLineChanged(cart, i, delta) ]_vars

C24_PreviewMatchesDisplay ==
  [][ CheckoutButtonClick => payload'.total = shown.total ]_vars

\* C25 (as claimed): once the server has accepted an in-store order, the
\* channel still being in-store, the cart is empty and the displayed totals
\* are zero, so the same lines cannot be sent again.
C25_AcceptedInlineOrderResets ==
  (last = "thanked" /\ orderType = "inline") =>
    /\ cart = << >>
    /\ shown.subtotal = 0
    /\ shown.total = 0

\* C26 (as claimed): the payment intent whose client secret confirms a payment
\* was created for the grand total at confirmation time, so an intent created
\* before the cart, the channel, the tip or the delivery fee changed is not
\* reused; after a successful payment the cached secret is cleared and the
\* cart is empty.
C26_IntentForCurrentTotal ==
  /\ [][ \A created \in BOOLEAN :
          (CheckoutSubmitCard(created) /\ confirmPending' > confirmPending) =>
            currentClientSecret'.total = RoundCents(computeTotals(Cur).grand) ]_vars
  /\ [][ ConfirmResult(TRUE) => (~currentClientSecret'.present /\ cart' = << >>) ]_vars

\* C27: while ordering is closed, addToCart leaves the cart unchanged, and no
\* order path creates a payment intent, a checkout session or an in-store
\* order, whatever the interleaving of status changes, channel changes and
\* preview-mode toggles.
C27_ClosedMeansNoOrders ==
  [][ orderingClosed =>
        /\ \A id \in CheckoutItems : MenuAddClick(id) => cart' = cart
        /\ payload' # payload => payload'.kind \notin {"intent", "session", "inline"}
    ]_vars

\* C28: an order with fulfilment = inline (in-store order post, checkout
\* session or payment intent) is submitted only after a proximity check found
\* the customer within 1.0 mile, no other result having come since, and never
\* while preview mode is set or the check started by the radio is pending.
C28_InlineOnlyNearby ==
  [][ ( /\ payload' # payload
        /\ payload'.kind \in {"intent", "session", "inline"}
        /\ payload'.fulfilment = "inline" )
      => /\ call'.fn = "requireInlineProximity"
         /\ call'.args[1].t = "fix"
         /\ call'.args[1].v <= INLINE_RADIUS_MILES
         /\ ~inlinePreviewMode
         /\ proxPending = 0
    ]_vars

\* C29: at most one Grill Points sync request is in flight, and once none is
\* in flight the values last posted are the current grillPoints and
\* grillPointsLifetime: an award made during a sync is not lost.
C29_GrillSyncComplete ==
  call.fn \in GrillCalls =>
    /\ Grill.requests <= 1
    /\ (Grill.requests = 0 /\ Grill.posted # NoPost) =>
         Grill.posted = Tally(Grill.grillPoints, Grill.grillPointsLifetime)

\* C30: in the Holy Hands cart, after any sequence of addToCart and changeQty
\* calls there is at most one entry per item id and every entry has qty >= 1,
\* an entry whose qty reaches 0 or below being removed; addToCart of an id
\* that is not on the menu and changeQty of an id that is not in the cart
\* leave the cart unchanged; after each update the checkout button is
\* disabled exactly when the cart is empty.
C30_HolyHandsCart ==
  /\ [] (call.fn \in ShopCalls =>
           /\ \A i, j \in 1..Len(Shop.cart) : Shop.cart[i].id = Shop.cart[j].id => i = j
           /\ \A i \in 1..Len(Shop.cart) : Shop.cart[i].qty >= 1
           /\ Shop.countText # Unset => (Shop.checkoutDisabled <=> Shop.cart = << >>))
  /\ [][ call.fn \in ShopCalls =>
           /\ \A itemId \in ShopIds :
                (CallShopAddToCart(itemId) /\ itemId \notin { menuItems[k].id : k \in 1..Len(menuItems) }) =>
                   Shop'.cart = Shop.cart
           /\ \A itemId \in ShopIds, delta \in ShopDeltas :
                CallChangeQty(itemId, delta) =>
                  LET target == FindEntry(Shop.cart, itemId)
                  IN  /\ target = 0 => Shop'.cart = Shop.cart
                      /\ (target # 0 /\ Shop.cart[target].qty + delta <= 0) =>
                           Shop'.cart = RemoveAt(Shop.cart, target)
     ]_vars

\* the only entry was taken out with one click on its minus button
C30_Witness ==
  /\ call.fn = "changeQty"
  /\ call.args = << "jumbo-shrimp", 0 - 1 >>
  /\ Shop.cart = << >>
  /\ Shop.countText = 0
  /\ Shop.checkoutDisabled
  /\ Shop.cartOpen

====
